---------------------------- MODULE Spec2Model ----------------------------
(***************************************************************************)
(* codesync: a Framer plugin that keeps the code files of a Framer project *)
(* (the remote store) and a directory on the user's computer (the local    *)
(* store, reached through a small express server with a chokidar watcher)  *)
(* in step.                                                                *)
(*                                                                         *)
(* Modelled parts                                                          *)
(*   server/index.ts (second server, lines 98-349): currentDirectory,      *)
(*     watcher, localChanges and the handlers /set-directory,              *)
(*     /local-changes, /sync-directory, /write-file, /get-files;           *)
(*   server/index.ts (first server, lines 1-96): /set-directory and        *)
(*     /sync-directory;                                                    *)
(*   the utils module (components/FileListItem.tsx lines 80-372):          *)
(*     getLocalChanges, updateFramerFile, syncLocalChangesToFramer,        *)
(*     checkForConflicts, performSync, syncFileToLocal, performTwoWaySync; *)
(*   the plugin with conflict resolution (unnamed/part_004 lines 229-708): *)
(*     HomePage, its two effects, handleResolveConflict,                   *)
(*     performSyncOperation and the start/stop button;                     *)
(*   the two-way plugin (src/App.tsx): performSync, its two intervals and  *)
(*     the initialize effect that runs again with every new directory;     *)
(*   the Change Directory page (components/DirectoryEditor.tsx, shown by   *)
(*     components/PageStack.jsx on top of the home page) and the           *)
(*     BackButton of the conflict resolver.                                *)
(*                                                                         *)
(* A pass is a chain of awaits; every await is a point where the user, the *)
(* watcher, a timer or another pass can run.  A pass therefore is a slot   *)
(* of `passes` that moves through pc values, one action per await, the     *)
(* awaits of the server's handlers included.  In the specifications of the *)
(* server alone a slot holds one request that the server has not answered. *)
(***************************************************************************)
EXTENDS Integers, Sequences, FiniteSets, TLC

\* ------------------------------------------------------------------ bounds
MaxLocalEdits == 2      \* edits the user makes in the local directory
MaxRemoteEdits == 1     \* edits the user makes in the Framer project
MaxPasses == 3          \* passes started in one behaviour
MaxFaults == 1          \* requests that fail in one behaviour
MaxSlots == 2           \* passes (or requests) that can be in flight together
MaxClicks == 2          \* presses of the start/stop or pause/resume button
MaxSyncs == 2           \* passes the two-way plugin starts in one behaviour
MaxRequests == 3        \* requests the server receives (SpecServer and the
                        \* other specifications of the server alone)
MaxHandlers == 8        \* watcher handlers that can be waiting together:
                        \* MaxLocalEdits + 2 files for each of MaxRequests
MaxReports == 3         \* changes the watcher has reported when it reports the
                        \* writes of a request as well
MaxTwoWaySlots == 1     \* passes of the two-way plugin in flight together
MaxEvents == 5          \* passes (or requests), edits, failed requests,
                        \* presses of a button, ticks of the file check,
                        \* runs of the initialize effect after the first
                        \* and, in the two-way plugin, openings of the
                        \* Change Directory page in one behaviour, together
MaxEventsDirectories == 6   \* the same in the specification of the
                            \* directories, where nobody edits a file
MaxSaves == 1           \* calls of handleSaveDirectory that wait for
                        \* savePluginState together
MaxEffects == 2         \* runs of the initialize effect and callbacks of the
                        \* file check that wait together
MaxLeaked == 1          \* watchers replaced without being closed

\* ------------------------------------------------------------- vocabulary
Names == {"a.ts", "b.ts"}
Contents == {"1", "2"}
Absent == "<absent>"            \* no file of that name
NoContent == "<undefined>"      \* FileChange.content of an unlink
Dir == "/dir"
OtherDir == "/other"          \* a second directory the user may name
NoDir == "<null>"
Slots == 1..MaxSlots

VARIABLES
    \* the two stores
    remote,                 \* Framer project: name -> content or Absent
    local,                  \* the code files of the directory the server has
                            \* (while it has none: of the directory it is
                            \* given first): name -> content or Absent
    hidden,                 \* content of the dot file of that directory, or
                            \* Absent
    other,                  \* the files of the other directory as the server
                            \* has left them, or Unvisited
    \* server/index.ts
    currentDirectory,       \* string | null
    watcher,                \* the directory the watcher of the variable
                            \* reports, NoDir while there is none or it is closed
    leaked,                 \* watchers that were replaced without being closed
    localChanges,           \* FileChange[] queued by the watcher
    \* plugin (React state of HomePage / App)
    localDirectory,         \* state.localDirectory
    fileMappings,           \* state.fileMappings
    lastSyncTimestamp,      \* state.lastSyncTimestamp (0: never)
    framerFiles,            \* ids of the files in the framerFiles state
    isLoading,
    isSyncing,
    conflicts,              \* FileConflict[] shown by the resolver
    isResolvingConflicts,
    showBackButton,         \* showBackButton of the resolver's BackButton
    resolvedConflicts,      \* {fileId, keepLocal}[]
    isSyncMode,
    hasInitialConflictResolution,
    pollInterval,           \* the armed interval and what its callback closed over
    autoSyncEnabled,        \* two-way plugin only
    passes,                 \* in-flight passes, one record per slot
    \* bookkeeping of the model
    stamp,                  \* FileChange.timestamp of the next queued change
    localEdits, remoteEdits, started, faults, clicks,
    applied,                \* timestamps of the changes applied to the remote store
    recorded,               \* the resolutions recorded since the last press of
                            \* the button, each with the conflict it resolved
    persisted,              \* the plugin data stored under STORAGE_KEY, as
                            \* loadPluginState returns it
    stopped,                \* TRUE when the last press of the button was
                            \* Stop Syncing
    page,                   \* the Change Directory page on top of the home
                            \* page, with the state of the render that opened it
    saving,                 \* calls of handleSaveDirectory that wait for
                            \* savePluginState
    effects,                \* runs of the initialize effect that wait for
                            \* their two answers, and callbacks of the file
                            \* check that wait for theirs
    uiEvents,               \* presses of Save Directory of the Change
                            \* Directory page and of the two-way plugin, runs
                            \* of its initialize effect after the first, and
                            \* ticks of its file check
    budget,                 \* the events the behaviour may use in all, set by
                            \* the specification
    reading,                \* add/change handlers between their event and
                            \* their localChanges.push
    response                \* the last response the server has sent
                            \* (specifications of the server alone)

vars == << remote, local, hidden, other, currentDirectory, watcher, leaked,
           localChanges, localDirectory, fileMappings, lastSyncTimestamp,
           framerFiles, isLoading, isSyncing, conflicts, isResolvingConflicts,
           showBackButton, resolvedConflicts, isSyncMode,
           hasInitialConflictResolution, pollInterval, autoSyncEnabled,
           passes, stamp, localEdits, remoteEdits, started, faults, clicks,
           applied, recorded, persisted, stopped, page, saving, effects,
           uiEvents, budget, reading, response >>

diskVars == << local, hidden, other >>
serverVars == << currentDirectory, watcher, leaked >>
pageVars == << page, saving, effects, uiEvents >>
uiVars == << localDirectory, fileMappings, lastSyncTimestamp, framerFiles,
             isLoading, isSyncing, conflicts, isResolvingConflicts,
             showBackButton, resolvedConflicts, isSyncMode,
             hasInitialConflictResolution, pollInterval, autoSyncEnabled >>
boundVars == << localEdits, remoteEdits, started, faults, clicks >>
requestVars == << reading, response >>

\* ------------------------------------------------ the size of a behaviour
\* What a behaviour has used of its bounds: the passes (or requests) started,
\* the edits of the user, the failed requests, the presses of a button and
\* the runs of the initialize effect.  A step that uses one of the bounds is
\* taken while Events < budget.
Events == started + localEdits + remoteEdits + faults + clicks + uiEvents
CanPress(n) == Events + n <= budget
CanFail == faults < MaxFaults /\ Events < budget
CanEditLocal == localEdits < MaxLocalEdits /\ Events < budget
CanEditRemote == remoteEdits < MaxRemoteEdits /\ Events < budget
CanClick == clicks < MaxClicks /\ Events < budget
CanRequest == started < MaxRequests /\ Events < budget

\* The changes the watcher has reported so far: queued, or being read.
Reports == (stamp - 1) + Len(reading)

\* ------------------------------------------------------- shapes of the data
NameOrder == << "a.ts", "b.ts" >>       \* Names in directory-listing order
Stores == [Names -> Contents \cup {Absent}]
Present(store) == {f \in Names : store[f] # Absent}

\* The orders in which a request can name the files of the project.
Orders == {order \in [1..2 -> Names] : order[1] # order[2]}

\* One await of a loop of the server: the call and the entry it is for.
Step(op, name) == [op |-> op, name |-> name]

\* A JavaScript string used as a condition: "" and undefined are falsy.
Truthy(c) == c \notin {"", NoContent, Absent}

\* interface FileChange (server/index.ts 116-121)
FileChange(type, path, content, timestamp) ==
    [type |-> type, path |-> path, content |-> content, timestamp |-> timestamp]

\* The pass that is not running.  The last six fields are what a handler of
\* the server holds between its awaits: dir and files of walkDirectory, the
\* entries a loop has still to go through, the directory of the fullPath of
\* the write that is under way, and the results.
IdlePass == [pc |-> "idle", kind |-> "none", caller |-> "none",
             resolved |-> {}, ignore |-> FALSE, files |-> {},
             hasInitial |-> FALSE, syncMode |-> FALSE,
             batch |-> << >>, known |-> {}, directory |-> NoDir,
             project |-> [f \in Names |-> Absent],
             existing |-> FALSE, walked |-> NoDir, entries |-> << >>,
             localFiles |-> {}, target |-> NoDir, content |-> NoContent,
             updated |-> {}, deleted |-> {}]

\* No page on top of the home page.
NoPage == [open |-> FALSE]

\* The server has sent nothing yet.
NoResponse == [status |-> 0]

\* No interval armed.
NoInterval == [armed |-> FALSE, resolved |-> {}, ignore |-> FALSE, files |-> {},
               directory |-> NoDir]

\* ---------------------------------------------------------- the utils module
\* getFramerCodeFiles maps every file of the project to {id, name, content}:
\* the objects kept in the framerFiles state carry no setFileContent method.
HasSetFileContent == FALSE

\* updateFramerFile (utils 170-190) after unstable_getCodeFiles and the find:
\* whether it goes on to a second await (remove, setFileContent or
\* unstable_createCodeFile).
UpdateFramerFileWrites(change, existingFile) ==
    IF change.type = "unlink" THEN existingFile ELSE Truthy(change.content)

\* The second await is rejected when the project is no longer as the find
\* saw it: remove or setFileContent on a file that has been removed since,
\* unstable_createCodeFile for a name that has been created since.
UpdateFramerFileRejected(rem, change, existingFile) ==
    existingFile # (rem[change.path] # Absent)

\* updateFramerFile: the project after the second await.
UpdateFramerFile(rem, change) ==
    IF change.type = "unlink"
    THEN [rem EXCEPT ![change.path] = Absent]
    ELSE [rem EXCEPT ![change.path] = change.content]

\* localFiles.find((f) => f.name === framerFile.name) (utils 232): the
\* content of the file of that name in the answer of GET /get-files, or
\* Absent.
Find(localFiles, name) ==
    IF \E file \in localFiles : file.name = name
    THEN (CHOOSE file \in localFiles : file.name = name).content
    ELSE Absent

\* checkForConflicts (utils 231-240): the files of the project that the
\* answer of GET /get-files holds with another content.
CheckForConflicts(rem, localFiles) ==
    {[fileId |-> f, localContent |-> Find(localFiles, f),
      framerContent |-> rem[f]] :
        f \in {g \in Present(rem) : /\ Find(localFiles, g) # Absent
                                    /\ Find(localFiles, g) # rem[g]}}

\* performSync: "Filter out resolved conflicts".
UnresolvedConflicts(found, resolved) ==
    {c \in found : ~ \E r \in resolved : r.fileId = c.fileId}

\* getLocalPathFromFramerName
GetLocalPathFromFramerName(name, baseDir) == baseDir \o "/" \o name

\* new Date(): a Date object of the model's clock.
NewDate(now) == << "Date", now >>

\* Mappings patched in place: the mappings of the snapshot are added to the
\* ones already held.
NewMappingsPatched(rem, dir, now) ==
    fileMappings \cup
    {[framerFileId |-> f,
      localPath |-> GetLocalPathFromFramerName(f, dir),
      status |-> "synced",
      lastSync |-> NewDate(now)] : f \in Present(rem)}

\* "Update file mappings": one mapping per file of the snapshot.
NewMappings(rem, dir, now) ==
    {[framerFileId |-> f,
      localPath |-> GetLocalPathFromFramerName(f, dir),
      status |-> "synced",
      lastSync |-> NewDate(now)] : f \in Present(rem)}

\* JSON.parse(JSON.stringify(state)) of savePluginState / loadPluginState:
\* a Date (the lastSync of a mapping) comes back as its ISO string, and a
\* string as it is.
ToISOString(date) == << "ISO", date[2] >>
JsonRoundTrip(state) ==
    [localDirectory |-> state.localDirectory,
     fileMappings |-> {[framerFileId |-> m.framerFileId,
                        localPath |-> m.localPath,
                        status |-> m.status,
                        lastSync |-> ToISOString(m.lastSync)]
                       : m \in state.fileMappings},
     lastSyncTimestamp |-> state.lastSyncTimestamp]

\* loadPluginState when nothing is stored.
DefaultPluginState ==
    [localDirectory |-> NoDir, fileMappings |-> {}, lastSyncTimestamp |-> 0]

\* savePluginState(newState): what a later loadPluginState returns.
SavePluginState(dir, mappings, timestamp) ==
    JsonRoundTrip([localDirectory |-> dir, fileMappings |-> mappings,
                   lastSyncTimestamp |-> timestamp])

\* ------------------------------------------------------------- the server
\* Whether the sequence holds the element (Array.prototype.includes).
Includes(seq, x) == \E i \in 1..Len(seq) : seq[i] = x

\* POST /sync-directory (server 236-265): the files the handler writes, in
\* the order in which it writes them.  "Handle existing files" goes through
\* the entries of the directory and writes those the request names with a
\* content that is not the empty string; "Add new files from Framer" goes
\* through the files of the request, in the order of the request, and
\* writes those that no entry names.
WriteOrder(existingFiles, files, order) ==
    SelectSeq(existingFiles,
              LAMBDA file : file \in Names /\ Truthy(files[file]))
    \o SelectSeq(order,
                 LAMBDA name : /\ files[name] # Absent
                               /\ ~ Includes(existingFiles, name))

\* A write of POST /sync-directory that mirrors the request: the file is
\* written and every file the request does not name is deleted, as the first
\* generation did.
SyncDirectoryWriteMirrored(loc, files, name) ==
    [f \in Names |->
        IF f = name THEN files[name]
        ELSE IF files[f] = Absent THEN Absent ELSE loc[f]]

\* One fs.writeFile of POST /sync-directory (server 245, 259): the code files
\* of the directory afterwards.
SyncDirectoryWrite(loc, files, name) == [loc EXCEPT ![name] = files[name]]

\* ------------------------------------------------------------------- Init
\* The project holds both files; the directory holds any version of them.
InitialRemote == {[f \in Names |-> "1"]}
InitialLocal == {l \in Stores : l["b.ts"] # Absent}

\* Or the directory holds a file the project has never had, and a dot file.
InitialLocalOnly ==
    [remote |-> [f \in Names |-> IF f = "a.ts" THEN Absent ELSE "1"],
     local |-> [f \in Names |-> "1"],
     hidden |-> "1"]

\* The other directory has not been named yet.
Unvisited ==
    [visited |-> FALSE, local |-> [f \in Names |-> Absent], hidden |-> Absent]

\* The files of a directory the server has left.
Left(loc, hid) == [visited |-> TRUE, local |-> loc, hidden |-> hid]

\* local and hidden hold the files of the directory.
Focused(directory) ==
    currentDirectory = NoDir \/ directory = currentDirectory

\* A POST /set-directory that also writes the project's files into the
\* directory.
DirectoryContentsSynced(directory) ==
    {[f \in Names |-> IF remote[f] # Absent THEN remote[f] ELSE local[f]]}

\* The code files the server finds in the directory of a POST
\* /set-directory: the files it has, when the directory is the one it has
\* already (or its first); the files as it has left them, when it has had
\* the directory before; any version of the files in a directory it has
\* never had.
DirectoryContents(directory) ==
    IF Focused(directory) THEN {local}
    ELSE IF other.visited THEN {other.local}
    ELSE InitialLocal

\* The dot file it finds there; a directory it has never had holds none.
DirectoryHidden(directory) ==
    IF Focused(directory) THEN hidden
    ELSE other.hidden

\* An answer that has not come, and one that has.
Pending == << >>
Answered(x) == << x >>

\* The initialize effect has called loadPluginState and getFramerCodeFiles
\* (part_004 378, App.tsx 103) and has neither answer; closure is
\* state.localDirectory of the render whose performSync the effect calls.
Run(directory) ==
    [kind |-> "initialize", closure |-> directory, savedState |-> Pending,
     files |-> Pending]

\* The callback of fileCheckInterval has called getFramerCodeFiles (App.tsx
\* 125-126).
FileCheckRun ==
    [kind |-> "fileCheck", closure |-> NoDir, savedState |-> Pending,
     files |-> Pending]

Launch ==
    /\ \/ remote \in InitialRemote /\ local \in InitialLocal /\ hidden = Absent
       \/ /\ remote = InitialLocalOnly.remote
          /\ local = InitialLocalOnly.local
          /\ hidden = InitialLocalOnly.hidden
    /\ other = Unvisited
    /\ currentDirectory = NoDir
    /\ watcher = NoDir
    /\ leaked = << >>
    /\ localChanges = << >>
    /\ localDirectory = NoDir
    /\ fileMappings = {}
    /\ lastSyncTimestamp = 0
    /\ framerFiles = {}
    /\ isLoading = TRUE
    /\ isSyncing = FALSE
    /\ conflicts = {}
    /\ isResolvingConflicts = FALSE
    /\ showBackButton = FALSE
    /\ resolvedConflicts = {}
    /\ isSyncMode = FALSE
    /\ hasInitialConflictResolution = FALSE
    /\ pollInterval = NoInterval
    /\ autoSyncEnabled = TRUE
    /\ passes = [s \in Slots |-> IdlePass]
    /\ stamp = 1
    /\ localEdits = 0
    /\ remoteEdits = 0
    /\ started = 0
    /\ faults = 0
    /\ clicks = 0
    /\ applied = {}
    /\ recorded = {}
    /\ persisted = DefaultPluginState
    /\ stopped = FALSE
    /\ page = NoPage
    /\ saving = << >>
    /\ effects = << Run(NoDir) >>
    /\ uiEvents = 0
    /\ reading = << >>
    /\ response = NoResponse

\* The state after construction, with the events of a behaviour.
Init == Launch /\ budget = MaxEvents

\* The same with the events of the specification of the directories.
InitDirectories == Launch /\ budget = MaxEventsDirectories

\* ------------------------------------- the directory and its watcher
\* The paths of the directory: the code files and one dot file.
HiddenPath == ".env"
Paths == Names \cup {HiddenPath}
PathChars ==
    [path \in Paths |->
        CASE path = "a.ts" -> << "a", ".", "t", "s" >>
          [] path = "b.ts" -> << "b", ".", "t", "s" >>
          [] path = HiddenPath -> << ".", "e", "n", "v" >>]

\* chokidar's ignored: /(^|[\/\\])\../ matches a dot that starts the path or
\* follows a separator and is followed by one more character.
Ignored(path) ==
    LET cs == PathChars[path] IN
    \E i \in 1..(Len(cs) - 1) :
        /\ cs[i] = "."
        /\ (i = 1 \/ cs[i - 1] \in {"/", "\\"})

\* The file of a path in the directory the server has, or Absent.
FileAt(path) == IF path = HiddenPath THEN hidden ELSE local[path]

\* The file of a path in a directory, or Absent.
FileIn(directory, path) ==
    IF Focused(directory) THEN FileAt(path)
    ELSE IF path = HiddenPath THEN other.hidden
    ELSE other.local[path]

\* The order in which fs.readdir lists the entries of a directory.
PathOrder == << HiddenPath >> \o NameOrder

\* path.relative(currentDirectory, fullPath) for a file of the directory dir
\* (server 328-329).  base: currentDirectory as the round of the loop read
\* it when it began, before the await of fs.readFile.
RelativePath(base, dir, path) ==
    IF dir = base THEN path ELSE ".." \o dir \o "/" \o path

\* walkDirectory, one round of its loop once fs.readFile is answered (server
\* 335-342): the file of the entry as it is now is added to the files read
\* so far under the name the round computed when it began; a file that is
\* gone or (fail) cannot be read makes fs.readFile throw and is left out.
WalkDirectory(files, base, dir, path, fail) ==
    IF fail \/ FileIn(dir, path) = Absent THEN files
    ELSE files \cup {[name |-> RelativePath(base, dir, path),
                      content |-> FileIn(dir, path)]}

\* fs.writeFile or fs.unlink on a path of a directory has ended: the file
\* has the content, or is gone (Absent).
FsSet(directory, path, c) ==
    IF Focused(directory)
    THEN /\ IF path = HiddenPath
            THEN hidden' = c /\ UNCHANGED local
            ELSE local' = [local EXCEPT ![path] = c] /\ UNCHANGED hidden
         /\ UNCHANGED other
    ELSE /\ other' = IF path = HiddenPath
                     THEN [other EXCEPT !.hidden = c]
                     ELSE [other EXCEPT !.local[path] = c]
         /\ UNCHANGED << local, hidden >>

\* An add/change handler that has not read its file yet.  The handler
\* closed over the directory of the watcher that called it (filePath is a
\* path of that directory).
Handler(type, path, directory) ==
    [type |-> type, path |-> path, content |-> NoContent,
     directory |-> directory]

RemoveAt(seq, i) == SubSeq(seq, 1, i - 1) \o SubSeq(seq, i + 1, Len(seq))

\* The watchers that report the files of a directory: the one the variable
\* holds, when it watches that directory, and every watcher that was
\* replaced without being closed and watches it.
ReportersOf(directory) ==
    (IF watcher = directory THEN 1 ELSE 0)
    + Cardinality({i \in 1..Len(leaked) : leaked[i] = directory})

\* The watchers that report the files of currentDirectory.
Reporters ==
    IF currentDirectory = NoDir THEN 0 ELSE ReportersOf(currentDirectory)

\* n times the same element.
Repeat(x, n) == [i \in 1..n |-> x]

\* The handlers chokidar starts when a request has written a file of a
\* directory: the add or the change handler, one for each of the reporters.
WriteHandlers(name, before, directory, reporters) ==
    Repeat(Handler(IF before = Absent THEN "add" ELSE "change",
                   name, directory), reporters)

\* A file of the directory is written: chokidar calls the add or the change
\* handler unless the path is ignored; the handler starts fs.readFile.
FsWrite(path, c) ==
    /\ CanEditLocal
    /\ FileAt(path) # c
    /\ localEdits' = localEdits + 1
    /\ IF path = HiddenPath
       THEN hidden' = c /\ UNCHANGED local
       ELSE local' = [local EXCEPT ![path] = c] /\ UNCHANGED hidden
    /\ reading' =
         IF ~ Ignored(path)
         THEN reading \o
              Repeat(Handler(IF FileAt(path) = Absent THEN "add" ELSE "change",
                             path, currentDirectory), Reporters)
         ELSE reading
    /\ UNCHANGED << remote, other, serverVars, localChanges, uiVars, passes,
                    stamp, remoteEdits, started, faults, clicks, applied,
                    recorded, persisted, stopped, pageVars, budget, response >>

\* A file of the directory is deleted: the unlink handler queues at once.
FsUnlink(path) ==
    /\ CanEditLocal
    /\ FileAt(path) # Absent
    /\ localEdits' = localEdits + 1
    /\ IF path = HiddenPath
       THEN hidden' = Absent /\ UNCHANGED local
       ELSE local' = [local EXCEPT ![path] = Absent] /\ UNCHANGED hidden
    /\ IF ~ Ignored(path)
       THEN /\ localChanges' = localChanges \o
                  [i \in 1..Reporters |->
                      FileChange("unlink", path, NoContent, stamp + i - 1)]
            /\ stamp' = stamp + Reporters
       ELSE UNCHANGED << localChanges, stamp >>
    /\ UNCHANGED << remote, other, serverVars, uiVars, passes, remoteEdits,
                    started, faults, clicks, applied, recorded, persisted,
                    stopped, pageVars, budget, requestVars >>

\* fs.readFile of the handler at position i completes: it has the content
\* the file of its directory has now, or it throws, because the file is gone
\* or (fail) cannot be read, and the handler's catch logs the error.
ReadFile(i, fail) ==
    LET c == FileIn(reading[i].directory, reading[i].path) IN
    /\ i \in 1..Len(reading)
    /\ reading[i].content = NoContent
    /\ fail => c # Absent
    /\ IF fail
       THEN /\ CanFail
            /\ faults' = faults + 1
       ELSE UNCHANGED faults
    /\ reading' =
         IF fail \/ c = Absent
         THEN RemoveAt(reading, i)
         ELSE [reading EXCEPT ![i].content = c]
    /\ UNCHANGED << remote, diskVars, serverVars, localChanges, uiVars,
                    passes, stamp, localEdits, remoteEdits, started, clicks,
                    applied, recorded, persisted, stopped, pageVars, budget,
                    response >>

\* The handler at position i goes on after its await: localChanges.push.
QueueChange(i) ==
    /\ i \in 1..Len(reading)
    /\ reading[i].content # NoContent
    /\ localChanges' = Append(localChanges,
            FileChange(reading[i].type, reading[i].path, reading[i].content,
                       stamp))
    /\ stamp' = stamp + 1
    /\ reading' = RemoveAt(reading, i)
    /\ UNCHANGED << remote, diskVars, serverVars, uiVars, passes, boundVars,
                    applied, recorded, persisted, stopped, pageVars, budget,
                    response >>

\* ------------------------------------------------------- the environment
\* The user edits, creates or deletes a code file in Framer.
RemoteEdit(f, c) ==
    /\ CanEditRemote
    /\ remote[f] # c
    /\ remote' = [remote EXCEPT ![f] = c]
    /\ remoteEdits' = remoteEdits + 1
    /\ UNCHANGED << diskVars, serverVars, localChanges, uiVars, passes,
                    stamp, localEdits, started, faults, clicks, applied,
                    recorded, persisted, stopped, pageVars, budget,
                    requestVars >>

\* ------------------------------------------------- passes: the shared steps
\* A pass is performSync or performTwoWaySync together with the callback that
\* awaits it.  pc names what the pass is waiting for:
\*   "check"           POST /set-directory of checkForConflicts: fs.access
\*   "closing"         the same request while the server awaits watcher.close()
\*   "project"         getFramerCodeFiles of checkForConflicts
\*   "listing"         GET /get-files of checkForConflicts
\*   "readdir"         the same request while the server awaits fs.readdir
\*   "walk"            the same request while walkDirectory awaits fs.readFile
\*   "drain"           GET /local-changes
\*   "apply"           updateFramerFile on the next drained change:
\*                     unstable_getCodeFiles
\*   "write"           updateFramerFile: remove, setFileContent or
\*                     unstable_createCodeFile
\*   "materialize"     getFramerCodeFiles of performTwoWaySync
\*   "set-directory"   POST /set-directory of syncFileToLocal: fs.access
\*   "set-closing"     the same request while the server awaits watcher.close()
\*   "sync-directory"  POST /sync-directory of syncFileToLocal
\*   "sync-readdir"    the same request while the server awaits fs.readdir
\*   "mkdir"           the same request while the server awaits fs.mkdir
\*   "writeFile"       the same request while the server awaits fs.writeFile
\*   "refresh"         getFramerCodeFiles of the callback
\*   "hung"            a request that is never answered
\* What follows an answer up to the next await runs without interruption
\* and belongs to the action of that answer.
InFlight == {s \in Slots : passes[s].pc # "idle"}
HasFreeSlot == InFlight # Slots
FreeSlot == CHOOSE s \in Slots : passes[s].pc = "idle" /\
                \A t \in Slots : passes[t].pc = "idle" => s <= t
CanStart == HasFreeSlot /\ started < MaxPasses /\ Events < budget

\* The conflicts resolved "keep local" so far in the session, noted when a
\* pass of the plugin with conflict resolution starts.
Started(p, session) ==
    [p EXCEPT !.known = {[fileId |-> r.fileId, localContent |-> r.localContent,
                          framerContent |-> r.framerContent] :
                            r \in {x \in session : x.keepLocal}}]

\* performSync (utils): the first request of a pass.
FirstStep(ignoreConflicts) == IF ignoreConflicts THEN "drain" ELSE "check"

\* The poll effect of HomePage (part_004 295-373): with its dependencies
\* changed the interval is cleared and, in sync mode with a directory, armed
\* again; the callback closes over the values of that render.
PollEffect(syncMode, directory, hasInitial, resolved, files) ==
    IF syncMode /\ directory # NoDir
    THEN [armed |-> TRUE, resolved |-> resolved, ignore |-> hasInitial,
          files |-> files, directory |-> directory]
    ELSE NoInterval

\* "for (const conflict of syncStatus.conflicts) ... file.setFileContent(
\* conflict.localContent)" (part_004 328-333, 516-521): keep the local version.
KeepLocalVersions(rem, found, files) ==
    [f \in Names |->
        IF HasSetFileContent /\ f \in files /\ \E c \in found : c.fileId = f
        THEN (CHOOSE c \in found : c.fileId = f).localContent
        ELSE rem[f]]

\* The BackButton of the conflict resolver (ConflictResolver.tsx 20-22,
\* PageStack.jsx 150-156, 250-280): showBackButton is computed once, when
\* the button is mounted, and is pageCount > 1: whether a page lay on top
\* of the home page at that moment.  The button is mounted while the
\* resolver is rendered with a conflict to show.
BackButtonAfter(resolving, shown) ==
    IF ~ (resolving /\ shown # {}) THEN FALSE
    ELSE IF isResolvingConflicts /\ conflicts # {} THEN showBackButton
    ELSE page.open

\* What a pass holds of its conflict check or of one updateFramerFile is
\* dropped when that call returns.
Cleared(p) ==
    [p EXCEPT !.project = IdlePass.project, !.existing = FALSE,
              !.walked = NoDir, !.entries = << >>, !.localFiles = {},
              !.target = NoDir]

\* performSync has returned a conflict result (utils 282-287); the callback
\* runs up to its next request: the interval callback (part_004 306-335) or
\* performSyncOperation (part_004 482-524).
ReturnConflicts(s, found) ==
    LET p == passes[s]
        prompt == p.kind = "poll" \/ ~ p.syncMode
        \* "File not found": a conflicting file is not in framerFiles
        thrown == prompt /\ \E c \in found : c.fileId \notin p.files
        shown == prompt /\ ~ thrown
        syncMode == IF p.kind = "poll" \/ shown THEN FALSE ELSE isSyncMode
    IN
    /\ passes' = [passes EXCEPT ![s] =
            IF p.kind = "poll" /\ ~ thrown
            THEN [Cleared(p) EXCEPT !.pc = "refresh"]
            ELSE IdlePass]
    /\ isSyncMode' = syncMode
    /\ pollInterval' = IF syncMode # isSyncMode THEN NoInterval ELSE pollInterval
    /\ conflicts' = IF shown THEN found ELSE conflicts
    /\ isResolvingConflicts' = IF shown THEN TRUE ELSE isResolvingConflicts
    /\ showBackButton' =
         BackButtonAfter(isResolvingConflicts', conflicts')
    /\ isSyncing' = IF p.kind = "operation" THEN FALSE ELSE isSyncing
    /\ remote' = IF prompt THEN remote
                 ELSE KeepLocalVersions(remote, found, p.files)
    /\ UNCHANGED << localDirectory, fileMappings, lastSyncTimestamp,
                    framerFiles, isLoading, resolvedConflicts,
                    hasInitialConflictResolution, autoSyncEnabled >>

\* syncLocalChangesToFramer has returned {status} (utils 196, 204, 206); the
\* callback runs up to its next request: performTwoWaySync and performSync
\* of the two-way plugin (utils 357-363, App.tsx 58-65), the interval
\* callback (part_004 306-338, where syncStatus.conflicts is undefined and
\* reading it throws) or performSyncOperation (part_004 482-535).
ReturnStatus(s, status) ==
    LET p == passes[s]
        ok == status = "success"
        stops == p.kind = "poll" /\ ~ ok /\ ~ p.hasInitial
    IN
    /\ passes' = [passes EXCEPT ![s] =
            IF ok
            THEN [Cleared(p) EXCEPT
                           !.batch = << >>,
                           !.pc = IF p.kind = "twoway" THEN "materialize"
                                  ELSE "refresh"]
            ELSE IdlePass]
    /\ isSyncMode' = IF stops THEN FALSE ELSE isSyncMode
    /\ pollInterval' = IF stops /\ isSyncMode THEN NoInterval ELSE pollInterval
    /\ resolvedConflicts' = IF p.kind = "operation" /\ ok THEN {}
                            ELSE resolvedConflicts
    /\ isSyncing' = IF p.kind # "poll" /\ ~ ok THEN FALSE ELSE isSyncing
    /\ UNCHANGED << localDirectory, fileMappings, lastSyncTimestamp,
                    framerFiles, isLoading, conflicts, isResolvingConflicts,
                    showBackButton, hasInitialConflictResolution,
                    autoSyncEnabled >>

\* A pass whose conflict check is over goes on to syncLocalChangesToFramer.
ToDrain(p) == [Cleared(p) EXCEPT !.pc = "drain"]

\* POST /set-directory (server 178-190) from the answer of fs.access to the
\* await of setupWatcher: currentDirectory is the directory of the request;
\* the first request finds no watcher and creates one at once, a later one
\* calls watcher.close() on whatever the variable holds and waits.
SetDirectory(directory) ==
    /\ currentDirectory' = directory
    /\ local' \in DirectoryContents(directory)
    /\ hidden' = DirectoryHidden(directory)
    /\ other' = IF Focused(directory) THEN other ELSE Left(local, hidden)
    /\ watcher' = IF currentDirectory = NoDir THEN directory ELSE NoDir
    /\ UNCHANGED leaked

\* setupWatcher after watcher.close() (server 132-174): chokidar.watch on the
\* directory of the request.  A watcher that another request has put in the
\* variable in the meantime is replaced without being closed and goes on
\* reporting.
SetupWatcher(directory) ==
    /\ watcher # NoDir => Len(leaked) < MaxLeaked
    /\ leaked' = IF watcher # NoDir THEN Append(leaked, watcher) ELSE leaked
    /\ watcher' = directory
    /\ UNCHANGED << diskVars, currentDirectory >>

\* fs.readdir on a directory (server 223, 325; first server 47): its
\* entries, in listing order, the dot file among them.
ReadDirIn(directory) ==
    SelectSeq(PathOrder, LAMBDA path : FileIn(directory, path) # Absent)

\* walkDirectory (server 327-343): one fs.readFile for every entry.
WalkSteps(entries) ==
    [i \in 1..Len(entries) |-> Step("readFile", entries[i])]

\* checkForConflicts, setServerDirectory (utils 216, 130-155): fs.access of
\* POST /set-directory is answered.  fail: the request fails; checkForConflicts
\* returns an error without conflicts and performSync goes on to
\* syncLocalChangesToFramer.
CheckSetDirectory(s, fail) ==
    LET p == passes[s] IN
    /\ p.pc = "check"
    /\ IF fail
       THEN /\ CanFail
            /\ faults' = faults + 1
            /\ passes' = [passes EXCEPT ![s] = ToDrain(p)]
            /\ UNCHANGED << diskVars, serverVars >>
       ELSE /\ UNCHANGED faults
            /\ passes' = [passes EXCEPT ![s] =
                    [p EXCEPT !.pc = IF currentDirectory = NoDir
                                     THEN "project" ELSE "closing"]]
            /\ SetDirectory(p.directory)
    /\ UNCHANGED << remote, localChanges, uiVars, stamp, localEdits,
                    remoteEdits, started, clicks, applied, recorded,
                    persisted, stopped, pageVars, budget, requestVars >>

\* The watcher.close() of that request has ended: the new watcher, the
\* response, and checkForConflicts goes on to getFramerCodeFiles.
CheckSetupWatcher(s) ==
    LET p == passes[s] IN
    /\ p.pc = "closing"
    /\ p.kind # "request"
    /\ SetupWatcher(p.directory)
    /\ passes' = [passes EXCEPT ![s] = [p EXCEPT !.pc = "project"]]
    /\ UNCHANGED << remote, localChanges, uiVars, stamp, boundVars, applied,
                    recorded, persisted, stopped, pageVars, budget,
                    requestVars >>

\* checkForConflicts, getFramerCodeFiles (utils 225): the pass holds the
\* files of the project as they are now.  fail: the call throws.
CheckGetFramerCodeFiles(s, fail) ==
    LET p == passes[s] IN
    /\ p.pc = "project"
    /\ IF fail
       THEN /\ CanFail
            /\ faults' = faults + 1
            /\ passes' = [passes EXCEPT ![s] = ToDrain(p)]
       ELSE /\ UNCHANGED faults
            /\ passes' = [passes EXCEPT ![s] =
                    [p EXCEPT !.pc = "listing", !.project = remote]]
    /\ UNCHANGED << remote, diskVars, serverVars, localChanges, uiVars,
                    stamp, localEdits, remoteEdits, started, clicks,
                    applied, recorded, persisted, stopped, pageVars, budget,
                    requestVars >>

\* getLocalFiles has returned (utils 226-245): the comparison of
\* checkForConflicts with the files of the answer, then the filter of
\* performSync (utils 276-288).
CheckReturns(s, localFiles) ==
    LET p == passes[s]
        found == UnresolvedConflicts(CheckForConflicts(p.project, localFiles),
                                     p.resolved)
    IN
    IF found # {}
    THEN ReturnConflicts(s, found)
    ELSE /\ passes' = [passes EXCEPT ![s] = ToDrain(p)]
         /\ UNCHANGED << remote, uiVars >>

\* getLocalFiles (utils 254-265): the request reaches GET /get-files (server
\* 309-315), which answers 400 without a directory and otherwise calls
\* walkDirectory, which calls fs.readdir on currentDirectory.  A request
\* that fails, and the 400, make getLocalFiles return no file.
CheckGetLocalFiles(s, fail) ==
    LET p == passes[s] IN
    /\ p.pc = "listing"
    /\ IF fail THEN CanFail /\ faults' = faults + 1
       ELSE UNCHANGED faults
    /\ IF fail \/ currentDirectory = NoDir
       THEN CheckReturns(s, {})
       ELSE /\ passes' = [passes EXCEPT ![s] =
                    [p EXCEPT !.pc = "readdir", !.walked = currentDirectory]]
            /\ UNCHANGED << remote, uiVars >>
    /\ UNCHANGED << diskVars, serverVars, localChanges, stamp, localEdits,
                    remoteEdits, started, clicks, applied, recorded,
                    persisted, stopped, pageVars, budget, requestVars >>

\* walkDirectory, fs.readdir is answered (server 325-335): the entries of
\* the directory as it is now, and the first round of the loop up to its
\* fs.readFile, with the relative path of its entry (target: the
\* currentDirectory it is relative to).  fail: fs.readdir throws, the server
\* answers 500 (server 318-321) and getLocalFiles returns no file; a
\* directory without entries gives none either.
CheckReadDir(s, fail) ==
    LET p == passes[s]
        entries == IF fail THEN << >> ELSE WalkSteps(ReadDirIn(p.walked))
    IN
    /\ p.pc = "readdir"
    /\ p.kind # "request"
    /\ IF fail THEN CanFail /\ faults' = faults + 1
       ELSE UNCHANGED faults
    /\ IF entries = << >>
       THEN CheckReturns(s, {})
       ELSE /\ passes' = [passes EXCEPT ![s] =
                    [p EXCEPT !.pc = "walk", !.entries = entries,
                              !.target = currentDirectory]]
            /\ UNCHANGED << remote, uiVars >>
    /\ UNCHANGED << diskVars, serverVars, localChanges, stamp, localEdits,
                    remoteEdits, started, clicks, applied, recorded,
                    persisted, stopped, pageVars, budget, requestVars >>

\* The files walkDirectory has read once the fs.readFile of the next entry
\* of the pass (or request) is answered (server 335-342).
WalkDirectoryRead(p, fail) ==
    WalkDirectory(p.localFiles, p.target, p.walked, Head(p.entries).name,
                  fail)

\* The fs.readFile of a round of walkDirectory is answered, and the next
\* round runs up to its own (server 327-343): path.relative is computed on
\* the currentDirectory of this moment; after the last entry the response,
\* and checkForConflicts returns.  fail: fs.readFile throws on a file that
\* is there.
CheckWalkDirectory(s, fail) ==
    LET p == passes[s] IN
    /\ p.pc = "walk"
    /\ p.kind # "request"
    /\ fail => FileIn(p.walked, Head(p.entries).name) # Absent
    /\ IF fail THEN CanFail /\ faults' = faults + 1
       ELSE UNCHANGED faults
    /\ IF Tail(p.entries) = << >>
       THEN CheckReturns(s, WalkDirectoryRead(p, fail))
       ELSE /\ passes' = [passes EXCEPT ![s] =
                    [p EXCEPT !.entries = Tail(p.entries),
                              !.target = currentDirectory,
                              !.localFiles = WalkDirectoryRead(p, fail)]]
            /\ UNCHANGED << remote, uiVars >>
    /\ UNCHANGED << diskVars, serverVars, localChanges, stamp, localEdits,
                    remoteEdits, started, clicks, applied, recorded,
                    persisted, stopped, pageVars, budget, requestVars >>

\* getLocalChanges and GET /local-changes (utils 157-168, server 200-208).
\* fail = "unreachable": the request does not reach the server;
\* fail = "lost": the server answers and the answer does not reach the plugin.
Drain(s, fail) ==
    LET p == passes[s]
        answered == fail = "none" /\ currentDirectory # NoDir
        changes == IF answered THEN localChanges ELSE << >>
    IN
    /\ p.pc = "drain"
    /\ fail \in {"none", "unreachable", "lost"}
    /\ fail = "lost" => currentDirectory # NoDir /\ localChanges # << >>
    /\ IF fail = "none" THEN UNCHANGED faults
       ELSE CanFail /\ faults' = faults + 1
    /\ localChanges' = IF answered \/ fail = "lost" THEN << >> ELSE localChanges
    /\ IF changes = << >>
       THEN ReturnStatus(s, "success")
       ELSE /\ passes' = [passes EXCEPT ![s] =
                    [p EXCEPT !.pc = "apply", !.batch = changes]]
            /\ UNCHANGED uiVars
    /\ UNCHANGED << remote, diskVars, serverVars, stamp, localEdits,
                    remoteEdits, started, clicks, applied, recorded,
                    persisted, stopped, pageVars, budget, requestVars >>

\* syncLocalChangesToFramer has got past one change (utils 199-202): the
\* next round of the loop, or the success status.
NextChange(s) ==
    LET p == passes[s] IN
    IF Tail(p.batch) = << >>
    THEN ReturnStatus(s, "success")
    ELSE /\ passes' = [passes EXCEPT ![s] =
                 [p EXCEPT !.pc = "apply", !.batch = Tail(p.batch),
                           !.existing = FALSE]]
         /\ UNCHANGED uiVars

\* One round of the loop of syncLocalChangesToFramer (utils 199-204):
\* updateFramerFile on the next change, up to its second await:
\* unstable_getCodeFiles and the find (utils 172-173).  fail: the call
\* throws, which ends the loop.
Apply(s, fail) ==
    LET p == passes[s]
        change == Head(p.batch)
        existingFile == remote[change.path] # Absent
    IN
    /\ p.pc = "apply"
    /\ IF fail
       THEN /\ CanFail
            /\ faults' = faults + 1
            /\ ReturnStatus(s, "error")
            /\ UNCHANGED applied
       ELSE /\ UNCHANGED faults
            /\ IF UpdateFramerFileWrites(change, existingFile)
               THEN /\ passes' = [passes EXCEPT ![s] =
                            [p EXCEPT !.pc = "write",
                                      !.existing = existingFile]]
                    /\ UNCHANGED << uiVars, applied >>
               ELSE /\ applied' = applied \cup {change.timestamp}
                    /\ NextChange(s)
    /\ UNCHANGED << remote, diskVars, serverVars, localChanges, stamp,
                    localEdits, remoteEdits, started, clicks, recorded,
                    persisted, stopped, pageVars, budget, requestVars >>

\* updateFramerFile, its second await (utils 175-185): remove or
\* setFileContent on the file the find gave, unstable_createCodeFile when it
\* gave none.  The call is rejected when the project is no longer as the
\* find saw it, or (fail) for another reason; a rejection ends the loop.
ApplyWrite(s, fail) ==
    LET p == passes[s]
        change == Head(p.batch)
        stale == UpdateFramerFileRejected(remote, change, p.existing)
    IN
    /\ p.pc = "write"
    /\ fail => ~ stale
    /\ IF fail THEN CanFail /\ faults' = faults + 1
       ELSE UNCHANGED faults
    /\ IF fail \/ stale
       THEN /\ ReturnStatus(s, "error")
            /\ UNCHANGED << remote, applied >>
       ELSE /\ remote' = UpdateFramerFile(remote, change)
            /\ applied' = applied \cup {change.timestamp}
            /\ NextChange(s)
    /\ UNCHANGED << diskVars, serverVars, localChanges, stamp, localEdits,
                    remoteEdits, started, clicks, recorded, persisted,
                    stopped, pageVars, budget, requestVars >>

\* Date.now() / new Date(): the model's clock is the number of passes started.
Now == started

\* The callback's getFramerCodeFiles and what follows it: the interval
\* callback (part_004 338-361), performSyncOperation and the start button
\* (part_004 535-565, 581, 695-697), performSync of the two-way plugin
\* (App.tsx 65-96).  fail: getFramerCodeFiles throws.
Refresh(s, fail) ==
    LET p == passes[s]
        ok == ~ fail
        syncMode == IF ok /\ p.kind = "operation" /\ p.caller = "start"
                    THEN TRUE ELSE isSyncMode
        hasInitial == IF ok /\ p.kind = "operation" /\ ~ p.hasInitial
                      THEN TRUE ELSE hasInitialConflictResolution
    IN
    /\ p.pc = "refresh"
    /\ IF fail THEN CanFail /\ faults' = faults + 1
       ELSE UNCHANGED faults
    /\ passes' = [passes EXCEPT ![s] = IdlePass]
    /\ isSyncing' = IF p.kind = "poll" THEN isSyncing ELSE FALSE
    /\ isSyncMode' = syncMode
    /\ hasInitialConflictResolution' = hasInitial
    /\ IF ok
       THEN /\ framerFiles' = Present(remote)
            /\ fileMappings' = NewMappings(remote, p.directory, Now)
            /\ lastSyncTimestamp' = Now
       ELSE UNCHANGED << fileMappings, lastSyncTimestamp, framerFiles >>
    /\ pollInterval' =
         IF ok THEN PollEffect(syncMode, localDirectory, hasInitial,
                               resolvedConflicts, framerFiles')
         ELSE pollInterval
    /\ UNCHANGED << remote, diskVars, serverVars, localChanges,
                    localDirectory, isLoading, conflicts,
                    isResolvingConflicts, showBackButton, resolvedConflicts,
                    autoSyncEnabled, stamp, localEdits, remoteEdits,
                    started, clicks, applied, recorded, persisted, stopped,
                    pageVars, budget, requestVars >>

\* ------------------------------- the plugin with conflict resolution (HomePage)
\* The two calls the initialize effect awaits together (Promise.all,
\* part_004 378, App.tsx 103).
Parts == {"loadPluginState", "getFramerCodeFiles"}

\* Whether the run has the answer of the call.
HasAnswer(run, part) ==
    IF part = "loadPluginState" THEN Len(run.savedState) > 0
    ELSE Len(run.files) > 0

\* The run once the call is answered: loadPluginState gives the plugin data
\* stored now, getFramerCodeFiles the files the project has now.
AnswerRun(run, part) ==
    IF part = "loadPluginState"
    THEN [run EXCEPT !.savedState = Answered(persisted)]
    ELSE [run EXCEPT !.files = Answered(Present(remote))]

\* Promise.all is fulfilled: both calls are answered.
Complete(run) == Len(run.savedState) > 0 /\ Len(run.files) > 0

\* The initialize effect (part_004 375-399), which runs once: one of its
\* two calls is answered.  With both answers setState(savedState) and
\* setFramerFiles(files), and setIsLoading(false).  fail: the call throws,
\* Promise.all rejects at once, the catch notifies and the finally sets
\* isLoading.
Initialize(part, fail) ==
    LET run == AnswerRun(effects[1], part)
        savedState == run.savedState[1]
        files == run.files[1]
    IN
    /\ effects # << >>
    /\ ~ HasAnswer(effects[1], part)
    /\ IF fail
       THEN /\ CanFail
            /\ faults' = faults + 1
            /\ effects' = Tail(effects)
            /\ isLoading' = FALSE
            /\ UNCHANGED << localDirectory, fileMappings, lastSyncTimestamp,
                            framerFiles, pollInterval >>
       ELSE /\ UNCHANGED faults
            /\ IF Complete(run)
               THEN /\ effects' = Tail(effects)
                    /\ isLoading' = FALSE
                    /\ localDirectory' = savedState.localDirectory
                    /\ fileMappings' = savedState.fileMappings
                    /\ lastSyncTimestamp' = savedState.lastSyncTimestamp
                    /\ framerFiles' = files
                    /\ pollInterval' =
                         PollEffect(isSyncMode, savedState.localDirectory,
                                    hasInitialConflictResolution,
                                    resolvedConflicts, files)
               ELSE /\ effects' = << run >>
                    /\ UNCHANGED << localDirectory, fileMappings,
                                    lastSyncTimestamp, framerFiles,
                                    isLoading, pollInterval >>
    /\ UNCHANGED << remote, diskVars, serverVars, localChanges, isSyncing,
                    conflicts, isResolvingConflicts, showBackButton,
                    resolvedConflicts, isSyncMode,
                    hasInitialConflictResolution, autoSyncEnabled, passes,
                    stamp, localEdits, remoteEdits, started, clicks,
                    applied, recorded, persisted, stopped, page, saving,
                    uiEvents, budget, requestVars >>

\* The home page can be clicked: it is rendered (not the resolver, not the
\* loading screen) and no page lies on top of it (PageStack.jsx 123-139).
HomeShown == ~ isResolvingConflicts /\ ~ isLoading /\ ~ page.open

\* The directories the user enters.
Directories == {Dir, OtherDir}

\* newState of handleSaveDirectory: the state of the render the handler
\* belongs to, with the directory entered.
NewState(state, directoryInput) ==
    [localDirectory |-> directoryInput,
     fileMappings |-> state.fileMappings,
     lastSyncTimestamp |-> state.lastSyncTimestamp]

\* A call of handleSaveDirectory that waits for savePluginState: the state
\* it saves and the directory of the render it belongs to.
Saving(newState, directory) == [state |-> newState, closure |-> directory]

\* handleSaveDirectory up to its await (part_004 401-413), called by the
\* editor of the home page (DirectoryEditor.tsx), which is rendered while
\* the state has no directory, with the directory the user has typed:
\* setState(newState), then savePluginState is called.
HandleSaveDirectory(directoryInput) ==
    LET newState == NewState([fileMappings |-> fileMappings,
                              lastSyncTimestamp |-> lastSyncTimestamp],
                             directoryInput)
    IN
    /\ HomeShown
    /\ localDirectory = NoDir
    /\ Len(saving) < MaxSaves
    /\ localDirectory' = newState.localDirectory
    /\ saving' = Append(saving, Saving(newState, localDirectory))
    /\ pollInterval' = PollEffect(isSyncMode, newState.localDirectory,
                                  hasInitialConflictResolution,
                                  resolvedConflicts, framerFiles)
    /\ UNCHANGED << remote, diskVars, serverVars, localChanges,
                    fileMappings, lastSyncTimestamp, framerFiles, isLoading,
                    isSyncing, conflicts, isResolvingConflicts,
                    showBackButton, resolvedConflicts, isSyncMode,
                    hasInitialConflictResolution, autoSyncEnabled, passes,
                    stamp, boundVars, applied, recorded, persisted, stopped,
                    page, effects, uiEvents, budget, requestVars >>

\* savePluginState returns to handleSaveDirectory (part_004 413-418, utils
\* 105-107): the plugin data holds newState.  fail: framer.setPluginData
\* rejects and the catch notifies.
SavePluginStateReturns(i, fail) ==
    /\ i \in 1..Len(saving)
    /\ saving' = RemoveAt(saving, i)
    /\ IF fail
       THEN /\ CanFail
            /\ faults' = faults + 1
            /\ UNCHANGED persisted
       ELSE /\ UNCHANGED faults
            /\ persisted' = JsonRoundTrip(saving[i].state)
    /\ UNCHANGED << remote, diskVars, serverVars, localChanges, uiVars,
                    passes, stamp, localEdits, remoteEdits, started, clicks,
                    applied, recorded, stopped, page, effects, uiEvents,
                    budget, requestVars >>

\* onClickSelectDirectory (part_004 421-428, App.tsx 191-198): Change
\* Directory puts a DirectoryPage on top of the home page.  The element keeps
\* the handleSaveDirectory of the render that opened it, and with it the
\* state of that render.
OnClickSelectDirectory ==
    /\ HomeShown
    /\ localDirectory # NoDir
    /\ page' = [open |-> TRUE, localDirectory |-> localDirectory,
                fileMappings |-> fileMappings,
                lastSyncTimestamp |-> lastSyncTimestamp]
    /\ UNCHANGED << remote, diskVars, serverVars, localChanges, uiVars,
                    passes, stamp, boundVars, applied, recorded, persisted,
                    stopped, saving, effects, uiEvents, budget, requestVars >>

\* The BackButton of the page: closePage (PageStack.jsx 87-97, 250-280).
ClosePage ==
    /\ page.open
    /\ page' = NoPage
    /\ UNCHANGED << remote, diskVars, serverVars, localChanges, uiVars,
                    passes, stamp, boundVars, applied, recorded, persisted,
                    stopped, saving, effects, uiEvents, budget, requestVars >>

\* handleSaveDirectory up to its await, called by Save Directory of the
\* Change Directory page: newState is built from the state of the render
\* that opened the page.  The poll effect runs again when the directory of
\* the state has changed.
PageSaveDirectory(directoryInput) ==
    LET newState == NewState(page, directoryInput) IN
    /\ page.open
    /\ Len(saving) < MaxSaves
    /\ CanPress(1)
    /\ uiEvents' = uiEvents + 1
    /\ localDirectory' = newState.localDirectory
    /\ fileMappings' = newState.fileMappings
    /\ lastSyncTimestamp' = newState.lastSyncTimestamp
    /\ saving' = Append(saving, Saving(newState, page.localDirectory))
    /\ pollInterval' =
         IF directoryInput # localDirectory
         THEN PollEffect(isSyncMode, directoryInput,
                         hasInitialConflictResolution, resolvedConflicts,
                         framerFiles)
         ELSE pollInterval
    /\ UNCHANGED << remote, diskVars, serverVars, localChanges, framerFiles,
                    isLoading, isSyncing, conflicts, isResolvingConflicts,
                    showBackButton, resolvedConflicts, isSyncMode,
                    hasInitialConflictResolution, autoSyncEnabled, passes,
                    stamp, boundVars, applied, recorded, persisted, stopped,
                    page, effects, budget, requestVars >>

\* performSyncOperation up to its first request: the pass closes over the
\* state of the render whose handler called it.
BeginOperation(caller, currentResolvedConflicts, session) ==
    Started([IdlePass EXCEPT
                !.pc = FirstStep(hasInitialConflictResolution),
                !.kind = "operation",
                !.caller = caller,
                !.resolved = currentResolvedConflicts,
                !.ignore = hasInitialConflictResolution,
                !.files = framerFiles,
                !.hasInitial = hasInitialConflictResolution,
                !.syncMode = isSyncMode,
                !.directory = localDirectory], session)

\* performSyncOperation called by a handler (part_004 467-481): without a
\* directory it returns at once; otherwise it sets isSyncing and calls
\* performSync.  syncing: isSyncing as the handler has left it.
PerformSyncOperation(caller, currentResolvedConflicts, session, syncing) ==
    IF localDirectory = NoDir
    THEN /\ isSyncing' = syncing
         /\ UNCHANGED << passes, started >>
    ELSE /\ CanStart
         /\ isSyncing' = TRUE
         /\ started' = started + 1
         /\ passes' = [passes EXCEPT ![FreeSlot] =
                 BeginOperation(caller, currentResolvedConflicts, session)]

\* The button, "Start Syncing": reset the sync state, then performSyncOperation.
\* The button is rendered when the state has a directory.
StartSyncing ==
    /\ HomeShown
    /\ localDirectory # NoDir
    /\ ~ isSyncMode
    /\ CanClick
    /\ clicks' = clicks + 1
    /\ stopped' = FALSE
    /\ resolvedConflicts' = {}
    /\ conflicts' = {}
    /\ isResolvingConflicts' = FALSE
    /\ showBackButton' = FALSE
    /\ hasInitialConflictResolution' = FALSE
    /\ recorded' = {}
    /\ PerformSyncOperation("start", resolvedConflicts, {}, TRUE)
    /\ pollInterval' = PollEffect(isSyncMode, localDirectory, FALSE, {},
                                  framerFiles)
    /\ UNCHANGED << remote, diskVars, serverVars, localChanges,
                    localDirectory, fileMappings, lastSyncTimestamp,
                    framerFiles, isLoading, isSyncMode, autoSyncEnabled,
                    stamp, localEdits, remoteEdits, faults, applied,
                    persisted, pageVars, budget, requestVars >>

\* A Stop Syncing that forgets clearInterval and the recorded resolutions.
StopSyncingLeavesTimer ==
    /\ HomeShown
    /\ localDirectory # NoDir
    /\ isSyncMode
    /\ CanClick
    /\ clicks' = clicks + 1
    /\ stopped' = TRUE
    /\ isSyncMode' = FALSE
    /\ isSyncing' = FALSE
    /\ conflicts' = {}
    /\ isResolvingConflicts' = FALSE
    /\ showBackButton' = FALSE
    /\ hasInitialConflictResolution' = FALSE
    /\ UNCHANGED << remote, diskVars, serverVars, localChanges,
                    localDirectory, fileMappings, lastSyncTimestamp,
                    framerFiles, isLoading, resolvedConflicts, pollInterval,
                    autoSyncEnabled, passes, stamp, localEdits, remoteEdits,
                    started, faults, applied, recorded, persisted, pageVars,
                    budget, requestVars >>

\* The button, "Stop Syncing".
StopSyncing ==
    /\ HomeShown
    /\ localDirectory # NoDir
    /\ isSyncMode
    /\ CanClick
    /\ clicks' = clicks + 1
    /\ stopped' = TRUE
    /\ isSyncMode' = FALSE
    /\ pollInterval' = NoInterval
    /\ isSyncing' = FALSE
    /\ resolvedConflicts' = {}
    /\ conflicts' = {}
    /\ isResolvingConflicts' = FALSE
    /\ showBackButton' = FALSE
    /\ hasInitialConflictResolution' = FALSE
    /\ recorded' = {}
    /\ UNCHANGED << remote, diskVars, serverVars, localChanges,
                    localDirectory, fileMappings, lastSyncTimestamp,
                    framerFiles, isLoading, autoSyncEnabled, passes, stamp,
                    localEdits, remoteEdits, started, faults, applied,
                    persisted, pageVars, budget, requestVars >>

\* onBack of the conflict resolver, called by its BackButton, which is
\* rendered when its showBackButton is set and can be clicked (or reached
\* with Escape) while no page lies on top of the home page.
Back ==
    /\ isResolvingConflicts
    /\ conflicts # {}
    /\ showBackButton
    /\ ~ page.open
    /\ isResolvingConflicts' = FALSE
    /\ conflicts' = {}
    /\ showBackButton' = FALSE
    /\ UNCHANGED << remote, diskVars, serverVars, localChanges,
                    localDirectory, fileMappings, lastSyncTimestamp,
                    framerFiles, isLoading, isSyncing, resolvedConflicts,
                    isSyncMode, hasInitialConflictResolution, pollInterval,
                    autoSyncEnabled, passes, stamp, boundVars, applied,
                    recorded, persisted, stopped, pageVars, budget,
                    requestVars >>

\* The interval fires: the callback calls performSync with what it closed
\* over.  Nothing looks at the passes already in flight.
Tick ==
    /\ pollInterval.armed
    /\ CanStart
    /\ started' = started + 1
    /\ passes' = [passes EXCEPT ![FreeSlot] =
            Started([IdlePass EXCEPT
                        !.pc = FirstStep(pollInterval.ignore),
                        !.kind = "poll",
                        !.caller = "interval",
                        !.resolved = pollInterval.resolved,
                        !.ignore = pollInterval.ignore,
                        !.files = pollInterval.files,
                        !.hasInitial = pollInterval.ignore,
                        !.syncMode = TRUE,
                        !.directory = pollInterval.directory], recorded)]
    /\ UNCHANGED << remote, diskVars, serverVars, localChanges, uiVars,
                    stamp, localEdits, remoteEdits, faults, clicks, applied,
                    recorded, persisted, stopped, pageVars, budget,
                    requestVars >>

\* handleResolveConflict (part_004 430-465), called by Keep Local or Keep
\* Framer of one of the conflicts the resolver shows (ConflictResolver.tsx
\* 34-46): the user picks a version; after the last one, sync mode and
\* performSyncOperation.  The poll effect runs again only when isSyncMode or
\* hasInitialConflictResolution changes (part_004 373): with both true
\* already, the interval keeps the callback it has.
HandleResolveConflict(fileId, keepLocal) ==
    LET updatedResolvedConflicts ==
            resolvedConflicts \cup {[fileId |-> fileId, keepLocal |-> keepLocal]}
        remainingConflicts == {c \in conflicts : c.fileId # fileId}
        last == remainingConflicts = {}
        conflict == CHOOSE c \in conflicts : c.fileId = fileId
        session == recorded \cup
            {[fileId |-> fileId, keepLocal |-> keepLocal,
              localContent |-> conflict.localContent,
              framerContent |-> conflict.framerContent]}
    IN
    /\ isResolvingConflicts
    /\ ~ page.open
    /\ \E c \in conflicts : c.fileId = fileId
    /\ fileId \in framerFiles
    /\ remote' = IF keepLocal
                 THEN KeepLocalVersions(remote,
                        {c \in conflicts : c.fileId = fileId}, framerFiles)
                 ELSE remote
    /\ resolvedConflicts' = updatedResolvedConflicts
    /\ recorded' = session
    /\ conflicts' = remainingConflicts
    /\ IF last
       THEN /\ isResolvingConflicts' = FALSE
            /\ showBackButton' = FALSE
            /\ isSyncMode' = TRUE
            /\ hasInitialConflictResolution' = TRUE
            /\ PerformSyncOperation("resolve", updatedResolvedConflicts,
                                    session, isSyncing)
            /\ pollInterval' =
                 IF isSyncMode /\ hasInitialConflictResolution
                 THEN pollInterval
                 ELSE PollEffect(TRUE, localDirectory, TRUE,
                                 updatedResolvedConflicts, framerFiles)
       ELSE UNCHANGED << isSyncing, isResolvingConflicts, showBackButton,
                         isSyncMode, hasInitialConflictResolution,
                         pollInterval, passes, started >>
    /\ UNCHANGED << diskVars, serverVars, localChanges, localDirectory,
                    fileMappings, lastSyncTimestamp, framerFiles, isLoading,
                    autoSyncEnabled, stamp, localEdits, remoteEdits, faults,
                    clicks, applied, persisted, stopped, pageVars, budget,
                    requestVars >>

\* ------------------------------------------------ the two-way plugin (App.tsx)
\* performSync of the two-way plugin up to its first request, GET
\* /local-changes of syncLocalChangesToFramer (App.tsx 48-56).  The callback
\* is the one of a render: directory is state.localDirectory of that render.
BeginTwoWaySync(caller, directory) ==
    [IdlePass EXCEPT !.pc = "drain", !.kind = "twoway", !.caller = caller,
                     !.directory = directory]

\* performSync() called by a handler or an effect: the callback of a render
\* without a directory returns at once (App.tsx 49-51).
PerformSync(caller, directory) ==
    IF directory = NoDir
    THEN UNCHANGED << isSyncing, passes, started >>
    ELSE /\ CanStart
         /\ started < MaxSyncs
         /\ isSyncing' = TRUE
         /\ started' = started + 1
         /\ passes' = [passes EXCEPT ![FreeSlot] =
                 BeginTwoWaySync(caller, directory)]

\* The initialize effect depends on performSync, and performSync on
\* state.localDirectory (App.tsx 98, 118): a render with another directory
\* runs the effect again, with the performSync of that render.
\* pending: the runs that wait already; pressed: 1 when a press of Save
\* Directory has made the render.
InitializeEffect(pending, directory, pressed) ==
    IF directory # localDirectory
    THEN /\ Len(pending) < MaxEffects
         /\ CanPress(pressed + 1)
         /\ effects' = Append(pending, Run(directory))
         /\ uiEvents' = uiEvents + pressed + 1
    ELSE /\ CanPress(pressed)
         /\ effects' = pending
         /\ uiEvents' = uiEvents + pressed

\* A run of the initialize effect (App.tsx 100-118): one of its two calls
\* is answered.  With both answers setState(savedState) and
\* setFramerFiles(files); with a directory in the plugin data performSync()
\* is called, the callback of the render that ran the effect, which returns
\* at once when that render had no directory; a directory in the plugin
\* data that is not the one of the state runs the effect once more.  The
\* finally sets isLoading, which only the first run finds set, and the first
\* run loads plugin data without a directory.  fail: the call throws,
\* Promise.all rejects at once and the catch notifies.
TwInitialize(i, part, fail) ==
    LET run == AnswerRun(effects[i], part)
        rest == RemoveAt(effects, i)
        savedState == run.savedState[1]
    IN
    /\ i \in 1..Len(effects)
    /\ effects[i].kind = "initialize"
    /\ ~ HasAnswer(effects[i], part)
    /\ IF fail
       THEN /\ CanFail
            /\ faults' = faults + 1
            /\ effects' = rest
            /\ isLoading' = FALSE
            /\ UNCHANGED << localDirectory, fileMappings, lastSyncTimestamp,
                            framerFiles, isSyncing, passes, started,
                            uiEvents >>
       ELSE /\ UNCHANGED faults
            /\ IF Complete(run)
               THEN /\ isLoading' = FALSE
                    /\ localDirectory' = savedState.localDirectory
                    /\ fileMappings' = savedState.fileMappings
                    /\ lastSyncTimestamp' = savedState.lastSyncTimestamp
                    /\ framerFiles' = run.files[1]
                    /\ InitializeEffect(rest, savedState.localDirectory, 0)
                    /\ IF savedState.localDirectory # NoDir
                       THEN PerformSync("initialize", run.closure)
                       ELSE UNCHANGED << isSyncing, passes, started >>
               ELSE /\ effects' = [effects EXCEPT ![i] = run]
                    /\ UNCHANGED << localDirectory, fileMappings,
                                    lastSyncTimestamp, framerFiles,
                                    isLoading, isSyncing, passes, started,
                                    uiEvents >>
    /\ UNCHANGED << remote, diskVars, serverVars, localChanges, conflicts,
                    isResolvingConflicts, showBackButton, resolvedConflicts,
                    isSyncMode, hasInitialConflictResolution, pollInterval,
                    autoSyncEnabled, stamp, localEdits, remoteEdits, clicks,
                    applied, recorded, persisted, stopped, page, saving,
                    budget, requestVars >>

\* handleSaveDirectory of the two-way plugin up to its await (App.tsx
\* 159-171), called by the editor of the home page with the directory the
\* user has typed: setState(newState), then savePluginState is called.  The
\* new directory runs the initialize effect again.
TwSaveDirectory(directoryInput) ==
    LET newState == NewState([fileMappings |-> fileMappings,
                              lastSyncTimestamp |-> lastSyncTimestamp],
                             directoryInput)
    IN
    /\ HomeShown
    /\ localDirectory = NoDir
    /\ Len(saving) < MaxSaves
    /\ localDirectory' = newState.localDirectory
    /\ saving' = Append(saving, Saving(newState, localDirectory))
    /\ InitializeEffect(effects, newState.localDirectory, 1)
    /\ UNCHANGED << remote, diskVars, serverVars, localChanges,
                    fileMappings, lastSyncTimestamp, framerFiles, isLoading,
                    isSyncing, conflicts, isResolvingConflicts,
                    showBackButton, resolvedConflicts, isSyncMode,
                    hasInitialConflictResolution, pollInterval,
                    autoSyncEnabled, passes, stamp, boundVars, applied,
                    recorded, persisted, stopped, page, budget, requestVars >>

\* onClickSelectDirectory of the two-way plugin (App.tsx 191-198): the same
\* DirectoryPage on top of the home page.  Here the press is one of the
\* events of a behaviour.
TwOnClickSelectDirectory ==
    /\ HomeShown
    /\ localDirectory # NoDir
    /\ CanPress(1)
    /\ uiEvents' = uiEvents + 1
    /\ page' = [open |-> TRUE, localDirectory |-> localDirectory,
                fileMappings |-> fileMappings,
                lastSyncTimestamp |-> lastSyncTimestamp]
    /\ UNCHANGED << remote, diskVars, serverVars, localChanges, uiVars,
                    passes, stamp, boundVars, applied, recorded, persisted,
                    stopped, saving, effects, budget, requestVars >>

\* handleSaveDirectory of the two-way plugin up to its await, called by Save
\* Directory of the Change Directory page: newState is built from the state
\* of the render that opened the page.
TwPageSaveDirectory(directoryInput) ==
    LET newState == NewState(page, directoryInput) IN
    /\ page.open
    /\ Len(saving) < MaxSaves
    /\ localDirectory' = newState.localDirectory
    /\ fileMappings' = newState.fileMappings
    /\ lastSyncTimestamp' = newState.lastSyncTimestamp
    /\ saving' = Append(saving, Saving(newState, page.localDirectory))
    /\ InitializeEffect(effects, directoryInput, 1)
    /\ UNCHANGED << remote, diskVars, serverVars, localChanges, framerFiles,
                    isLoading, isSyncing, conflicts, isResolvingConflicts,
                    showBackButton, resolvedConflicts, isSyncMode,
                    hasInitialConflictResolution, pollInterval,
                    autoSyncEnabled, passes, stamp, boundVars, applied,
                    recorded, persisted, stopped, page, budget, requestVars >>

\* savePluginState returns to handleSaveDirectory of the two-way plugin
\* (App.tsx 171-179): the plugin data holds newState, and performSync() is
\* called, the callback of the render the handler belongs to.  fail:
\* framer.setPluginData rejects and the catch notifies.
TwSavePluginStateReturns(i, fail) ==
    /\ i \in 1..Len(saving)
    /\ saving' = RemoveAt(saving, i)
    /\ IF fail
       THEN /\ CanFail
            /\ faults' = faults + 1
            /\ UNCHANGED << isSyncing, passes, started, persisted >>
       ELSE /\ UNCHANGED faults
            /\ persisted' = JsonRoundTrip(saving[i].state)
            /\ PerformSync("save", saving[i].closure)
    /\ UNCHANGED << remote, diskVars, serverVars, localChanges,
                    localDirectory, fileMappings, lastSyncTimestamp,
                    framerFiles, isLoading, conflicts, isResolvingConflicts,
                    showBackButton, resolvedConflicts, isSyncMode,
                    hasInitialConflictResolution, pollInterval,
                    autoSyncEnabled, stamp, localEdits, remoteEdits, clicks,
                    applied, recorded, stopped, page, effects, uiEvents,
                    budget, requestVars >>

\* fileCheckInterval fires (App.tsx 125-126, every second while auto-sync is
\* enabled): the callback calls getFramerCodeFiles.
FileCheckTick ==
    /\ autoSyncEnabled
    /\ Len(effects) < MaxEffects
    /\ CanPress(1)
    /\ uiEvents' = uiEvents + 1
    /\ effects' = Append(effects, FileCheckRun)
    /\ UNCHANGED << remote, diskVars, serverVars, localChanges, uiVars,
                    passes, stamp, boundVars, applied, recorded, persisted,
                    stopped, page, saving, budget, requestVars >>

\* The getFramerCodeFiles of a callback of fileCheckInterval is answered
\* (App.tsx 126-127): setFramerFiles.  fail: the call throws; nothing
\* catches it and nothing changes.
FileCheck(i, fail) ==
    /\ i \in 1..Len(effects)
    /\ effects[i].kind = "fileCheck"
    /\ effects' = RemoveAt(effects, i)
    /\ IF fail
       THEN /\ CanFail
            /\ faults' = faults + 1
            /\ UNCHANGED framerFiles
       ELSE /\ UNCHANGED faults
            /\ framerFiles' = Present(remote)
    /\ UNCHANGED << remote, diskVars, serverVars, localChanges,
                    localDirectory, fileMappings, lastSyncTimestamp,
                    isLoading, isSyncing, conflicts, isResolvingConflicts,
                    showBackButton, resolvedConflicts, isSyncMode,
                    hasInitialConflictResolution, pollInterval,
                    autoSyncEnabled, passes, stamp, localEdits, remoteEdits,
                    started, clicks, applied, recorded, persisted, stopped,
                    page, saving, uiEvents, budget, requestVars >>

\* syncInterval fires (App.tsx 130-132, every 5 seconds while auto-sync is
\* enabled): the callback calls performSync, the callback of the render
\* that armed the interval.  Nothing looks at the passes in flight; the
\* model lets MaxTwoWaySlots of them run together.
AutoTick ==
    /\ autoSyncEnabled
    /\ Cardinality(InFlight) < MaxTwoWaySlots
    /\ localDirectory # NoDir
    /\ PerformSync("interval", localDirectory)
    /\ UNCHANGED << remote, diskVars, serverVars, localChanges,
                    localDirectory, fileMappings, lastSyncTimestamp,
                    framerFiles, isLoading, conflicts, isResolvingConflicts,
                    showBackButton, resolvedConflicts, isSyncMode,
                    hasInitialConflictResolution, pollInterval,
                    autoSyncEnabled, stamp, localEdits, remoteEdits, faults,
                    clicks, applied, recorded, persisted, stopped, pageVars,
                    budget, requestVars >>

\* toggleAutoSync: "Pause Sync" / "Resume Sync".  The button is rendered
\* when the state has a directory (App.tsx 295-306).
ToggleAutoSync ==
    /\ HomeShown
    /\ localDirectory # NoDir
    /\ CanClick
    /\ clicks' = clicks + 1
    /\ autoSyncEnabled' = ~ autoSyncEnabled
    /\ UNCHANGED << remote, diskVars, serverVars, localChanges,
                    localDirectory, fileMappings, lastSyncTimestamp,
                    framerFiles, isLoading, isSyncing, conflicts,
                    isResolvingConflicts, showBackButton, resolvedConflicts,
                    isSyncMode, hasInitialConflictResolution, pollInterval,
                    passes, stamp, localEdits, remoteEdits, started, faults,
                    applied, recorded, persisted, stopped, pageVars, budget,
                    requestVars >>

\* performTwoWaySync, "Then sync Framer changes to local": getFramerCodeFiles
\* (utils 362).  fail: the call throws; performTwoWaySync returns an error
\* and performSync of App.tsx notifies and ends (App.tsx 58-62, 92-94).
TwoWayGetFramerCodeFiles(s, fail) ==
    LET p == passes[s] IN
    /\ p.pc = "materialize"
    /\ IF fail
       THEN /\ CanFail
            /\ faults' = faults + 1
            /\ passes' = [passes EXCEPT ![s] = IdlePass]
            /\ isSyncing' = FALSE
       ELSE /\ UNCHANGED faults
            /\ passes' = [passes EXCEPT ![s] =
                    [p EXCEPT !.pc = "set-directory", !.project = remote]]
            /\ UNCHANGED isSyncing
    /\ UNCHANGED << remote, diskVars, serverVars, localChanges,
                    localDirectory, fileMappings, lastSyncTimestamp,
                    framerFiles, isLoading, conflicts, isResolvingConflicts,
                    showBackButton, resolvedConflicts, isSyncMode,
                    hasInitialConflictResolution, pollInterval,
                    autoSyncEnabled, stamp, localEdits, remoteEdits,
                    started, clicks, applied, recorded, persisted, stopped,
                    pageVars, budget, requestVars >>

\* syncFileToLocal, setServerDirectory (utils 307): fs.access of POST
\* /set-directory is answered.  fail: the request fails and syncFileToLocal
\* returns an error.
SyncFileToLocalSetDirectory(s, fail) ==
    LET p == passes[s] IN
    /\ p.pc = "set-directory"
    /\ IF fail
       THEN /\ CanFail
            /\ faults' = faults + 1
            /\ passes' = [passes EXCEPT ![s] = IdlePass]
            /\ isSyncing' = FALSE
            /\ UNCHANGED << diskVars, serverVars >>
       ELSE /\ UNCHANGED faults
            /\ passes' = [passes EXCEPT ![s] =
                    [p EXCEPT !.pc = IF currentDirectory = NoDir
                                     THEN "sync-directory"
                                     ELSE "set-closing"]]
            /\ SetDirectory(p.directory)
            /\ UNCHANGED isSyncing
    /\ UNCHANGED << remote, localChanges, localDirectory, fileMappings,
                    lastSyncTimestamp, framerFiles, isLoading, conflicts,
                    isResolvingConflicts, showBackButton, resolvedConflicts,
                    isSyncMode, hasInitialConflictResolution, pollInterval,
                    autoSyncEnabled, stamp, localEdits, remoteEdits,
                    started, clicks, applied, recorded, persisted, stopped,
                    pageVars, budget, requestVars >>

\* The watcher.close() of that request has ended: the new watcher, the
\* response, and syncFileToLocal goes on to POST /sync-directory.
SyncFileToLocalSetupWatcher(s) ==
    LET p == passes[s] IN
    /\ p.pc = "set-closing"
    /\ SetupWatcher(p.directory)
    /\ passes' = [passes EXCEPT ![s] = [p EXCEPT !.pc = "sync-directory"]]
    /\ UNCHANGED << remote, localChanges, uiVars, stamp, boundVars, applied,
                    recorded, persisted, stopped, pageVars, budget,
                    requestVars >>

\* The sequences of a sequence, one after the other.
RECURSIVE Flatten(_)
Flatten(seqs) ==
    IF Len(seqs) = 0 THEN << >> ELSE Head(seqs) \o Flatten(Tail(seqs))

\* POST /sync-directory of the second server (server 236-265): the awaits
\* of its two loops for the entries of the directory and the files of the
\* request (Absent: not in the request), which come in the order `order`.
\* "Handle existing files" awaits one fs.writeFile for every file of
\* WriteOrder that the directory had; "Add new files from Framer" awaits
\* fs.mkdir and then fs.writeFile for every other.
SyncDirectorySteps(existingFiles, files, order) ==
    LET writes == WriteOrder(existingFiles, files, order)
        awaits(name) ==
            IF Includes(existingFiles, name)
            THEN << Step("writeFile", name) >>
            ELSE << Step("mkdir", name), Step("writeFile", name) >>
    IN  Flatten([i \in 1..Len(writes) |-> awaits(writes[i])])

\* The await at the head of the entries is over.  fs.mkdir that throws
\* (fail) takes the handler to the catch of the round, past the fs.writeFile
\* of the file (server 254-264).
StepsAfter(entries, fail) ==
    IF fail /\ Head(entries).op = "mkdir" THEN Tail(Tail(entries))
    ELSE Tail(entries)

\* The directory of the fullPath of the next await (server 244, 256; first
\* server 57, 70): path.join(currentDirectory, ...) is evaluated when the
\* round begins, and kept from fs.mkdir to fs.writeFile.
TargetAfter(p, fail) ==
    IF ~ fail /\ Head(p.entries).op = "mkdir" THEN p.target
    ELSE currentDirectory

\* The code files of a directory.
FilesIn(directory) == IF Focused(directory) THEN local ELSE other.local

\* The code files of a directory become loc.
SetFiles(directory, loc) ==
    IF Focused(directory)
    THEN local' = loc /\ UNCHANGED << hidden, other >>
    ELSE other' = [other EXCEPT !.local = loc] /\ UNCHANGED << local, hidden >>

\* syncFileToLocal, POST /sync-directory with the files the pass holds (utils
\* 323-329): the request reaches the server (server 211-223), which answers
\* 400 without a directory and otherwise calls fs.readdir on
\* currentDirectory.  fail: the request fails.  A request that fails, and
\* the 400, make syncFileToLocal return an error, and performTwoWaySync and
\* performSync of App.tsx end (utils 331-349, App.tsx 58-62).
SyncFileToLocalSyncDirectory(s, fail) ==
    LET p == passes[s]
        error == fail \/ currentDirectory = NoDir
    IN
    /\ p.pc = "sync-directory"
    /\ IF fail THEN CanFail /\ faults' = faults + 1
       ELSE UNCHANGED faults
    /\ passes' = [passes EXCEPT ![s] =
            IF error THEN IdlePass
            ELSE [p EXCEPT !.pc = "sync-readdir",
                           !.walked = currentDirectory]]
    /\ isSyncing' = IF error THEN FALSE ELSE isSyncing
    /\ UNCHANGED << remote, diskVars, serverVars, localChanges,
                    localDirectory, fileMappings, lastSyncTimestamp,
                    framerFiles, isLoading, conflicts, isResolvingConflicts,
                    showBackButton, resolvedConflicts, isSyncMode,
                    hasInitialConflictResolution, pollInterval,
                    autoSyncEnabled, stamp, localEdits, remoteEdits,
                    started, clicks, applied, recorded, persisted, stopped,
                    pageVars, budget, requestVars >>

\* The pass whose POST /sync-directory has been answered with the results
\* (utils 336-343, App.tsx 65): the results are logged only, and the pass
\* goes on to the refresh.
Materialized(p) ==
    [p EXCEPT !.pc = "refresh", !.project = IdlePass.project,
              !.walked = NoDir, !.entries = << >>, !.target = NoDir]

\* The fs.readdir of that request is answered (server 223-235): the
\* handler goes on to the first await of its loops, or answers when it has
\* nothing to write.  order: the order of the files in the request.  fail:
\* fs.readdir throws and the server answers 500 (server 271-274).
SyncFileToLocalReadDir(s, order, fail) ==
    LET p == passes[s]
        steps == SyncDirectorySteps(ReadDirIn(p.walked), p.project, order)
    IN
    /\ p.pc = "sync-readdir"
    /\ p.kind # "request"
    /\ IF fail THEN CanFail /\ faults' = faults + 1
       ELSE UNCHANGED faults
    /\ passes' = [passes EXCEPT ![s] =
            IF fail THEN IdlePass
            ELSE IF steps = << >> THEN Materialized(p)
            ELSE [p EXCEPT !.pc = Head(steps).op, !.entries = steps,
                           !.target = currentDirectory]]
    /\ isSyncing' = IF fail THEN FALSE ELSE isSyncing
    /\ UNCHANGED << remote, diskVars, serverVars, localChanges,
                    localDirectory, fileMappings, lastSyncTimestamp,
                    framerFiles, isLoading, conflicts, isResolvingConflicts,
                    showBackButton, resolvedConflicts, isSyncMode,
                    hasInitialConflictResolution, pollInterval,
                    autoSyncEnabled, stamp, localEdits, remoteEdits,
                    started, clicks, applied, recorded, persisted, stopped,
                    pageVars, budget, requestVars >>

\* One fs.mkdir or fs.writeFile of that request is over (server 245, 258,
\* 259); after the last one the response.
\*   fail     the call throws: the catch of the round logs it (server
\*            247-249, 261-263) and the loop goes on;
\*   echo     whether the watchers of the directory, one of them set up
\*            anew by /set-directory just before, report the write: each of
\*            them then calls its add or change handler.
SyncFileToLocalWriteFile(s, fail, echo) ==
    LET p == passes[s]
        name == Head(p.entries).name
        writes == ~ fail /\ Head(p.entries).op = "writeFile"
        rest == StepsAfter(p.entries, fail)
        reporters == ReportersOf(p.target)
    IN
    /\ p.pc \in {"mkdir", "writeFile"}
    /\ p.kind # "request"
    /\ echo => writes /\ reporters > 0 /\ Reports + reporters <= MaxReports
    /\ IF fail THEN CanFail /\ faults' = faults + 1
       ELSE UNCHANGED faults
    /\ IF writes
       THEN SetFiles(p.target,
                     SyncDirectoryWrite(FilesIn(p.target), p.project, name))
       ELSE UNCHANGED diskVars
    /\ reading' =
         IF echo
         THEN reading \o WriteHandlers(name, FileIn(p.target, name),
                                       p.target, reporters)
         ELSE reading
    /\ passes' = [passes EXCEPT ![s] =
            IF rest = << >> THEN Materialized(p)
            ELSE [p EXCEPT !.pc = Head(rest).op, !.entries = rest,
                           !.target = TargetAfter(p, fail)]]
    /\ UNCHANGED << remote, serverVars, localChanges, uiVars, stamp,
                    localEdits, remoteEdits, started, clicks, applied,
                    recorded, persisted, stopped, pageVars, budget,
                    response >>

\* ------------------------------------------------------------------ Spec
\* The user edits the code files of the directory and of the project; the
\* handlers of the watcher read and queue.
Environment ==
    \/ \E f \in Names, c \in Contents : FsWrite(f, c)
    \/ \E f \in Names : FsUnlink(f)
    \/ \E i \in 1..MaxHandlers, fail \in BOOLEAN : ReadFile(i, fail)
    \/ \E i \in 1..MaxHandlers : QueueChange(i)
    \/ \E f \in Names, c \in Contents \cup {Absent} : RemoteEdit(f, c)

\* The requests of checkForConflicts.
CheckSteps ==
    \/ \E s \in Slots, fail \in BOOLEAN : CheckSetDirectory(s, fail)
    \/ \E s \in Slots : CheckSetupWatcher(s)
    \/ \E s \in Slots, fail \in BOOLEAN : CheckGetFramerCodeFiles(s, fail)
    \/ \E s \in Slots, fail \in BOOLEAN : CheckGetLocalFiles(s, fail)
    \/ \E s \in Slots, fail \in BOOLEAN : CheckReadDir(s, fail)
    \/ \E s \in Slots, fail \in BOOLEAN : CheckWalkDirectory(s, fail)

\* The Change Directory page and the save it starts.
PageSteps ==
    \/ OnClickSelectDirectory
    \/ ClosePage
    \/ \E directory \in Directories : PageSaveDirectory(directory)

\* The plugin with conflict resolution, the server and the user's edits.
\* The first directory the user enters here is Dir (either directory in
\* the Change Directory page); SpecDirectories has both.
Next ==
    \/ Environment
    \/ \E part \in Parts, fail \in BOOLEAN : Initialize(part, fail)
    \/ \E directory \in {Dir} : HandleSaveDirectory(directory)
    \/ \E i \in 1..MaxSaves, fail \in BOOLEAN : SavePluginStateReturns(i, fail)
    \/ PageSteps
    \/ StartSyncing
    \/ StopSyncing
    \/ Back
    \/ Tick
    \/ \E f \in Names, k \in BOOLEAN : HandleResolveConflict(f, k)
    \/ CheckSteps
    \/ \E s \in Slots, fail \in {"none", "unreachable", "lost"} : Drain(s, fail)
    \/ \E s \in Slots, fail \in BOOLEAN : Apply(s, fail)
    \/ \E s \in Slots, fail \in BOOLEAN : ApplyWrite(s, fail)
    \/ \E s \in Slots, fail \in BOOLEAN : Refresh(s, fail)

Spec == Init /\ [][Next]_vars

\* The two-way plugin with the same server and the same utils module.
NextTwoWay ==
    \/ Environment
    \/ \E i \in 1..MaxEffects, part \in Parts, fail \in BOOLEAN :
            TwInitialize(i, part, fail)
    \/ \E directory \in Directories : TwSaveDirectory(directory)
    \/ TwOnClickSelectDirectory
    \/ ClosePage
    \/ \E directory \in Directories : TwPageSaveDirectory(directory)
    \/ \E i \in 1..MaxSaves, fail \in BOOLEAN :
            TwSavePluginStateReturns(i, fail)
    \/ FileCheckTick
    \/ \E i \in 1..MaxEffects, fail \in BOOLEAN : FileCheck(i, fail)
    \/ AutoTick
    \/ ToggleAutoSync
    \/ \E s \in Slots, fail \in {"none", "unreachable", "lost"} : Drain(s, fail)
    \/ \E s \in Slots, fail \in BOOLEAN : Apply(s, fail)
    \/ \E s \in Slots, fail \in BOOLEAN : ApplyWrite(s, fail)
    \/ \E s \in Slots, fail \in BOOLEAN : TwoWayGetFramerCodeFiles(s, fail)
    \/ \E s \in Slots, fail \in BOOLEAN : SyncFileToLocalSetDirectory(s, fail)
    \/ \E s \in Slots : SyncFileToLocalSetupWatcher(s)
    \/ \E s \in Slots, fail \in BOOLEAN : SyncFileToLocalSyncDirectory(s, fail)
    \/ \E s \in Slots, order \in Orders, fail \in BOOLEAN :
            SyncFileToLocalReadDir(s, order, fail)
    \/ \E s \in Slots, fail \in BOOLEAN, echo \in BOOLEAN :
            SyncFileToLocalWriteFile(s, fail, echo)
    \/ \E s \in Slots, fail \in BOOLEAN : Refresh(s, fail)

SpecTwoWay == Init /\ [][NextTwoWay]_vars

\* The plugin with conflict resolution when the user may also change the
\* directory, while nobody edits the files: the queue of the watcher stays
\* empty and no pass has a change to apply.
NextDirectories ==
    \/ \E part \in Parts, fail \in BOOLEAN : Initialize(part, fail)
    \/ \E directory \in Directories : HandleSaveDirectory(directory)
    \/ \E i \in 1..MaxSaves, fail \in BOOLEAN : SavePluginStateReturns(i, fail)
    \/ PageSteps
    \/ StartSyncing
    \/ StopSyncing
    \/ Back
    \/ Tick
    \/ \E f \in Names, k \in BOOLEAN : HandleResolveConflict(f, k)
    \/ CheckSteps
    \/ \E s \in Slots, fail \in {"none", "unreachable", "lost"} : Drain(s, fail)
    \/ \E s \in Slots, fail \in BOOLEAN : Refresh(s, fail)

SpecDirectories == InitDirectories /\ [][NextDirectories]_vars

\* The request a pass is waiting for never gets a response: fetch and the
\* Framer API are awaited without a timeout (utils 118-168, 213-252), so the
\* pass stays where it is.
Hang(s) ==
    /\ passes[s].pc \in {"check", "closing", "project", "listing", "readdir",
                         "walk", "drain", "refresh"}
    /\ CanFail
    /\ faults' = faults + 1
    /\ passes' = [passes EXCEPT ![s].pc = "hung"]
    /\ UNCHANGED << remote, diskVars, serverVars, localChanges, uiVars,
                    stamp, localEdits, remoteEdits, started, clicks,
                    applied, recorded, persisted, stopped, pageVars, budget,
                    requestVars >>

\* The plugin with conflict resolution when a request may stay unanswered,
\* while nobody edits the files.  Every request that is answered is
\* answered eventually: the steps of the passes are weakly fair.
NextHang ==
    \/ \E part \in Parts, fail \in BOOLEAN : Initialize(part, fail)
    \/ \E directory \in Directories : HandleSaveDirectory(directory)
    \/ \E i \in 1..MaxSaves, fail \in BOOLEAN : SavePluginStateReturns(i, fail)
    \/ StartSyncing
    \/ StopSyncing
    \/ Tick
    \/ \E f \in Names, k \in BOOLEAN : HandleResolveConflict(f, k)
    \/ CheckSteps
    \/ \E s \in Slots, fail \in {"none", "unreachable", "lost"} : Drain(s, fail)
    \/ \E s \in Slots, fail \in BOOLEAN : Refresh(s, fail)
    \/ \E s \in Slots : Hang(s)

Responses ==
    \/ CheckSteps
    \/ \E s \in Slots, fail \in {"none", "unreachable", "lost"} : Drain(s, fail)
    \/ \E s \in Slots, fail \in BOOLEAN : Refresh(s, fail)

SpecHang == Init /\ [][NextHang]_vars /\ WF_vars(Responses)

\* ------------------------------------- server/index.ts, request by request
\* In the specifications of the server alone started counts the requests
\* the server has received, and a slot of passes holds a request whose
\* handler waits at one of its awaits; caller names the handler.  The
\* server receives a request whatever the others are waiting for.
Request(caller, pc) ==
    [IdlePass EXCEPT !.kind = "request", !.caller = caller, !.pc = pc]

\* The handler of the slot waits at that await.
Awaits(s, caller, pcs) ==
    /\ passes[s].kind = "request"
    /\ passes[s].caller = caller
    /\ passes[s].pc \in pcs

\* POST /set-directory with the directory of the request, from the answer
\* of fs.access to the await of setupWatcher (server 178-190):
\* currentDirectory, and the first request, which finds no watcher, creates
\* it and answers.  fail: fs.access throws.
PostSetDirectoryTo(directory, fail) ==
    /\ CanRequest
    /\ started' = started + 1
    /\ IF fail
       THEN /\ CanFail
            /\ faults' = faults + 1
            /\ response' = [status |-> 500]
            /\ UNCHANGED << diskVars, serverVars, passes >>
       ELSE /\ UNCHANGED faults
            /\ SetDirectory(directory)
            /\ IF currentDirectory = NoDir
               THEN /\ response' = [status |-> 200, directory |-> directory]
                    /\ UNCHANGED passes
               ELSE /\ HasFreeSlot
                    /\ passes' = [passes EXCEPT ![FreeSlot] =
                            [Request("set-directory", "closing")
                                EXCEPT !.directory = directory]]
                    /\ UNCHANGED response
    /\ UNCHANGED << remote, localChanges, uiVars, stamp, localEdits,
                    remoteEdits, clicks, applied, recorded, persisted,
                    stopped, pageVars, budget, reading >>

\* The rest of that request once watcher.close() has ended (server 132-174,
\* 192): chokidar.watch with ignoreInitial, the three handlers, and the
\* response.
PostSetDirectoryWatch(s) ==
    /\ Awaits(s, "set-directory", {"closing"})
    /\ SetupWatcher(passes[s].directory)
    /\ response' = [status |-> 200, directory |-> passes[s].directory]
    /\ passes' = [passes EXCEPT ![s] = IdlePass]
    /\ UNCHANGED << remote, localChanges, uiVars, stamp, boundVars, applied,
                    recorded, persisted, stopped, pageVars, budget, reading >>

\* POST /set-directory for the directory Dir.
PostSetDirectory(fail) == PostSetDirectoryTo(Dir, fail)

\* GET /local-changes.
GetLocalChanges ==
    /\ CanRequest
    /\ started' = started + 1
    /\ IF currentDirectory = NoDir
       THEN /\ response' = [status |-> 400]
            /\ UNCHANGED localChanges
       ELSE /\ response' = [status |-> 200, changes |-> localChanges]
            /\ localChanges' = << >>
    /\ UNCHANGED << remote, diskVars, serverVars, uiVars, passes, stamp,
                    localEdits, remoteEdits, faults, clicks, applied,
                    recorded, persisted, stopped, pageVars, budget, reading >>

\* GET /get-files up to its await (server 309-316, 325): 400 without a
\* directory; otherwise walkDirectory calls fs.readdir on currentDirectory.
GetFiles ==
    /\ CanRequest
    /\ started' = started + 1
    /\ IF currentDirectory = NoDir
       THEN /\ response' = [status |-> 400]
            /\ UNCHANGED passes
       ELSE /\ HasFreeSlot
            /\ passes' = [passes EXCEPT ![FreeSlot] =
                    [Request("get-files", "readdir")
                        EXCEPT !.walked = currentDirectory]]
            /\ UNCHANGED response
    /\ UNCHANGED << remote, diskVars, serverVars, localChanges, uiVars,
                    stamp, localEdits, remoteEdits, faults, clicks, applied,
                    recorded, persisted, stopped, pageVars, budget, reading >>

\* GET /get-files, fs.readdir is answered (server 325-335): the entries of
\* the directory as it is now, and the first round of the loop up to its
\* fs.readFile, with the relative path of its entry (target: the
\* currentDirectory it is relative to); the empty list for a directory
\* without entries.  fail: fs.readdir throws and the catch of the handler
\* answers 500 (server 318-321).
GetFilesReadDir(s, fail) ==
    LET p == passes[s]
        entries == WalkSteps(ReadDirIn(p.walked))
    IN
    /\ Awaits(s, "get-files", {"readdir"})
    /\ IF fail THEN CanFail /\ faults' = faults + 1
       ELSE UNCHANGED faults
    /\ IF fail \/ entries = << >>
       THEN /\ response' = IF fail THEN [status |-> 500]
                           ELSE [status |-> 200, files |-> {}]
            /\ passes' = [passes EXCEPT ![s] = IdlePass]
       ELSE /\ passes' = [passes EXCEPT ![s] =
                    [p EXCEPT !.pc = "walk", !.entries = entries,
                              !.target = currentDirectory]]
            /\ UNCHANGED response
    /\ UNCHANGED << remote, diskVars, serverVars, localChanges, uiVars,
                    stamp, localEdits, remoteEdits, started, clicks,
                    applied, recorded, persisted, stopped, pageVars, budget,
                    reading >>

\* GET /get-files, the fs.readFile of the next entry is answered and the
\* next round runs up to its own (server 327-343), and after the last entry
\* the response (server 316).  fail: fs.readFile throws on a file that is
\* there.
GetFilesReadFile(s, fail) ==
    LET p == passes[s]
        files == WalkDirectoryRead(p, fail)
    IN
    /\ Awaits(s, "get-files", {"walk"})
    /\ fail => FileIn(p.walked, Head(p.entries).name) # Absent
    /\ IF fail THEN CanFail /\ faults' = faults + 1
       ELSE UNCHANGED faults
    /\ IF Tail(p.entries) = << >>
       THEN /\ response' = [status |-> 200, files |-> files]
            /\ passes' = [passes EXCEPT ![s] = IdlePass]
       ELSE /\ passes' = [passes EXCEPT ![s] =
                    [p EXCEPT !.entries = Tail(p.entries),
                              !.target = currentDirectory,
                              !.localFiles = files]]
            /\ UNCHANGED response
    /\ UNCHANGED << remote, diskVars, serverVars, localChanges, uiVars,
                    stamp, localEdits, remoteEdits, started, clicks,
                    applied, recorded, persisted, stopped, pageVars, budget,
                    reading >>

\* POST /sync-directory of the second server with the files of the request
\* (Absent: not in the request), up to its await (server 211-223): 400
\* without a directory; otherwise fs.readdir on currentDirectory.
PostSyncDirectory(files) ==
    /\ CanRequest
    /\ started' = started + 1
    /\ IF currentDirectory = NoDir
       THEN /\ response' = [status |-> 400]
            /\ UNCHANGED passes
       ELSE /\ HasFreeSlot
            /\ passes' = [passes EXCEPT ![FreeSlot] =
                    [Request("sync-directory", "sync-readdir")
                        EXCEPT !.walked = currentDirectory,
                               !.project = files]]
            /\ UNCHANGED response
    /\ UNCHANGED << remote, diskVars, serverVars, localChanges, uiVars,
                    stamp, localEdits, remoteEdits, faults, clicks, applied,
                    recorded, persisted, stopped, pageVars, budget, reading >>

\* The response of POST /sync-directory (server 267-270).
SyncDirectoryResponse(updated) ==
    [status |-> 200, skipped |-> {}, updated |-> updated, deleted |-> {}]

\* The fs.readdir of that request is answered (server 223-235): the
\* handler goes on to the first await of its loops, or answers when it has
\* nothing to write.  order: the order of the files in the request.  fail:
\* fs.readdir throws and the catch of the handler answers 500 (server
\* 271-274).
PostSyncDirectoryReadDir(s, order, fail) ==
    LET p == passes[s]
        steps == SyncDirectorySteps(ReadDirIn(p.walked), p.project, order)
    IN
    /\ Awaits(s, "sync-directory", {"sync-readdir"})
    /\ IF fail THEN CanFail /\ faults' = faults + 1
       ELSE UNCHANGED faults
    /\ IF fail \/ steps = << >>
       THEN /\ response' = IF fail THEN [status |-> 500]
                           ELSE SyncDirectoryResponse({})
            /\ passes' = [passes EXCEPT ![s] = IdlePass]
       ELSE /\ passes' = [passes EXCEPT ![s] =
                    [p EXCEPT !.pc = Head(steps).op, !.entries = steps,
                              !.target = currentDirectory]]
            /\ UNCHANGED response
    /\ UNCHANGED << remote, diskVars, serverVars, localChanges, uiVars,
                    stamp, localEdits, remoteEdits, started, clicks,
                    applied, recorded, persisted, stopped, pageVars, budget,
                    reading >>

\* One fs.mkdir or fs.writeFile of that request is over (server 245, 258,
\* 259): the file is written and named in the results, and every watcher of
\* the directory calls its add or change handler; after the last await the
\* response.  fail: the call throws, the catch of the round logs it (server
\* 247-249, 261-263) and the loop goes on.
PostSyncDirectoryWriteFile(s, fail) ==
    LET p == passes[s]
        name == Head(p.entries).name
        writes == ~ fail /\ Head(p.entries).op = "writeFile"
        rest == StepsAfter(p.entries, fail)
        updated == IF writes THEN p.updated \cup {name} ELSE p.updated
    IN
    /\ Awaits(s, "sync-directory", {"mkdir", "writeFile"})
    /\ IF fail THEN CanFail /\ faults' = faults + 1
       ELSE UNCHANGED faults
    /\ IF writes
       THEN /\ SetFiles(p.target,
                        SyncDirectoryWrite(FilesIn(p.target), p.project, name))
            /\ reading' = reading \o
                    WriteHandlers(name, FileIn(p.target, name), p.target,
                                  ReportersOf(p.target))
       ELSE UNCHANGED << diskVars, reading >>
    /\ IF rest = << >>
       THEN /\ response' = SyncDirectoryResponse(updated)
            /\ passes' = [passes EXCEPT ![s] = IdlePass]
       ELSE /\ passes' = [passes EXCEPT ![s] =
                    [p EXCEPT !.pc = Head(rest).op, !.entries = rest,
                              !.target = TargetAfter(p, fail),
                              !.updated = updated]]
            /\ UNCHANGED response
    /\ UNCHANGED << remote, serverVars, localChanges, uiVars, stamp,
                    localEdits, remoteEdits, started, clicks, applied,
                    recorded, persisted, stopped, pageVars, budget >>

\* POST /write-file with the fileName and the content of the request, up to
\* its first await (server 282-298): 400 without a directory; otherwise
\* fullPath is in currentDirectory and fs.mkdir is called.
PostWriteFile(fileName, content) ==
    /\ CanRequest
    /\ started' = started + 1
    /\ IF currentDirectory = NoDir
       THEN /\ response' = [status |-> 400]
            /\ UNCHANGED passes
       ELSE /\ HasFreeSlot
            /\ passes' = [passes EXCEPT ![FreeSlot] =
                    [Request("write-file", "mkdir")
                        EXCEPT !.entries = << Step("mkdir", fileName),
                                              Step("writeFile", fileName) >>,
                               !.content = content,
                               !.target = currentDirectory]]
            /\ UNCHANGED response
    /\ UNCHANGED << remote, diskVars, serverVars, localChanges, uiVars,
                    stamp, localEdits, remoteEdits, faults, clicks, applied,
                    recorded, persisted, stopped, pageVars, budget, reading >>

\* POST /write-file, fs.mkdir or fs.writeFile is over (server 298-301):
\* after fs.writeFile the file has the content, every watcher of the
\* directory calls its add or change handler unless the path is ignored,
\* and the server answers.  fail: the call throws and the catch answers 500
\* (server 302-305).
PostWriteFileStep(s, fail) ==
    LET p == passes[s]
        fileName == Head(p.entries).name
        writes == ~ fail /\ Head(p.entries).op = "writeFile"
    IN
    /\ Awaits(s, "write-file", {"mkdir", "writeFile"})
    /\ IF fail THEN CanFail /\ faults' = faults + 1
       ELSE UNCHANGED faults
    /\ IF writes
       THEN /\ FsSet(p.target, fileName, p.content)
            /\ reading' =
                 IF Ignored(fileName) THEN reading
                 ELSE reading \o
                      WriteHandlers(fileName, FileIn(p.target, fileName),
                                    p.target, ReportersOf(p.target))
       ELSE UNCHANGED << diskVars, reading >>
    /\ IF fail \/ writes
       THEN /\ response' = IF fail THEN [status |-> 500]
                           ELSE [status |-> 200,
                                 message |-> "File written successfully"]
            /\ passes' = [passes EXCEPT ![s] = IdlePass]
       ELSE /\ passes' = [passes EXCEPT ![s] =
                    [p EXCEPT !.pc = "writeFile",
                              !.entries = Tail(p.entries)]]
            /\ UNCHANGED response
    /\ UNCHANGED << remote, serverVars, localChanges, uiVars, stamp,
                    localEdits, remoteEdits, started, clicks, applied,
                    recorded, persisted, stopped, pageVars, budget >>

NextServer ==
    \/ \E fail \in BOOLEAN : PostSetDirectory(fail)
    \/ \E s \in Slots : PostSetDirectoryWatch(s)
    \/ \E path \in Paths, c \in Contents : FsWrite(path, c)
    \/ \E path \in Paths : FsUnlink(path)
    \/ \E i \in 1..MaxHandlers, fail \in BOOLEAN : ReadFile(i, fail)
    \/ \E i \in 1..MaxHandlers : QueueChange(i)
    \/ GetLocalChanges
    \/ GetFiles
    \/ \E s \in Slots, fail \in BOOLEAN : GetFilesReadDir(s, fail)
    \/ \E s \in Slots, fail \in BOOLEAN : GetFilesReadFile(s, fail)
    \/ PostSyncDirectory(remote)
    \/ \E s \in Slots, order \in Orders, fail \in BOOLEAN :
            PostSyncDirectoryReadDir(s, order, fail)
    \/ \E s \in Slots, fail \in BOOLEAN : PostSyncDirectoryWriteFile(s, fail)
    \/ \E fileName \in Paths, content \in Contents :
            PostWriteFile(fileName, content)
    \/ \E s \in Slots, fail \in BOOLEAN : PostWriteFileStep(s, fail)

SpecServer == Init /\ [][NextServer]_vars

\* ------------------------------- server/index.ts, the first generation
\* The first server has no watcher; POST /sync-directory makes the directory
\* equal to the request.
\* framerFiles.has(file) (first server 50, 55): the request names the file.
Has(files, file) == file \in Names /\ files[file] # Absent

\* "Delete files that don't exist in Framer", with the test of the has()
\* inverted.
DeletedFilesInverted(existingFiles, files) ==
    SelectSeq(existingFiles, LAMBDA file : Has(files, file))

\* "Delete files that don't exist in Framer" (first server 54-55): the
\* entries of the directory fs.unlink is called for, in listing order.
DeletedFiles(existingFiles, files) ==
    SelectSeq(existingFiles, LAMBDA file : ~ Has(files, file))

\* "Write or update files from Framer" (first server 68): the names
\* fs.writeFile is called for, in the order of the request.
UpdatedFiles(files, order) ==
    SelectSeq(order, LAMBDA name : files[name] # Absent)

\* The awaits of the two loops of POST /sync-directory of the first
\* generation (first server 54-76).
SyncDirectoryStepsV1(existingFiles, files, order) ==
    LET deletes == DeletedFiles(existingFiles, files)
        writes == UpdatedFiles(files, order)
    IN  [i \in 1..Len(deletes) |-> Step("unlink", deletes[i])]
        \o [i \in 1..Len(writes) |-> Step("writeFile", writes[i])]

\* POST /set-directory of the first generation with the directory of the
\* request (first server 17-32), from the answer of fs.access:
\* currentDirectory is that directory, whose files the later calls reach.
\* fail: fs.access throws.
PostSetDirectoryV1(directory, fail) ==
    /\ CanRequest
    /\ started' = started + 1
    /\ IF fail
       THEN /\ CanFail
            /\ faults' = faults + 1
            /\ response' = [status |-> 500]
            /\ UNCHANGED << diskVars, currentDirectory >>
       ELSE /\ UNCHANGED faults
            /\ currentDirectory' = directory
            /\ local' \in DirectoryContents(directory)
            /\ hidden' = DirectoryHidden(directory)
            /\ other' = IF Focused(directory) THEN other
                        ELSE Left(local, hidden)
            /\ response' = [status |-> 200, directory |-> directory]
    /\ UNCHANGED << remote, watcher, leaked, localChanges, uiVars,
                    passes, stamp, localEdits, remoteEdits, clicks, applied,
                    recorded, persisted, stopped, pageVars, budget, reading >>

\* POST /sync-directory of the first generation with the files of the
\* request, up to its await (first server 35-47): 400 without a directory;
\* otherwise fs.readdir on currentDirectory.
PostSyncDirectoryV1(files) ==
    /\ CanRequest
    /\ started' = started + 1
    /\ IF currentDirectory = NoDir
       THEN /\ response' = [status |-> 400]
            /\ UNCHANGED passes
       ELSE /\ HasFreeSlot
            /\ passes' = [passes EXCEPT ![FreeSlot] =
                    [Request("sync-directory-v1", "sync-readdir")
                        EXCEPT !.walked = currentDirectory,
                               !.project = files]]
            /\ UNCHANGED response
    /\ UNCHANGED << remote, diskVars, serverVars, localChanges, uiVars,
                    stamp, localEdits, remoteEdits, faults, clicks, applied,
                    recorded, persisted, stopped, pageVars, budget, reading >>

\* The response of POST /sync-directory of the first generation (first
\* server 78-82).
SyncDirectoryResponseV1(deletedFiles, updatedFiles) ==
    [status |-> 200, deletedFiles |-> deletedFiles,
     updatedFiles |-> updatedFiles]

\* The fs.readdir of that request is answered (first server 47-53): the
\* handler goes on to the first await of its loops, or answers when it has
\* nothing to delete or write.  order: the order of the files in the
\* request.  fail: fs.readdir throws and the catch of the handler answers
\* 500 (first server 83-86).
PostSyncDirectoryV1ReadDir(s, order, fail) ==
    LET p == passes[s]
        steps == SyncDirectoryStepsV1(ReadDirIn(p.walked), p.project, order)
    IN
    /\ Awaits(s, "sync-directory-v1", {"sync-readdir"})
    /\ IF fail THEN CanFail /\ faults' = faults + 1
       ELSE UNCHANGED faults
    /\ IF fail \/ steps = << >>
       THEN /\ response' = IF fail THEN [status |-> 500]
                           ELSE SyncDirectoryResponseV1({}, {})
            /\ passes' = [passes EXCEPT ![s] = IdlePass]
       ELSE /\ passes' = [passes EXCEPT ![s] =
                    [p EXCEPT !.pc = Head(steps).op, !.entries = steps,
                              !.target = currentDirectory]]
            /\ UNCHANGED response
    /\ UNCHANGED << remote, diskVars, serverVars, localChanges, uiVars,
                    stamp, localEdits, remoteEdits, started, clicks,
                    applied, recorded, persisted, stopped, pageVars, budget,
                    reading >>

\* One fs.unlink or fs.writeFile of that request is over (first server 57,
\* 70): the file is gone, or has the content of the request, and is named
\* in the results; after the last await the response.  fs.unlink throws on
\* a file that is gone already; fail: the call throws for another reason.
\* The catch of the round logs it (first server 60-62, 73-75) and the loop
\* goes on.
PostSyncDirectoryV1Step(s, fail) ==
    LET p == passes[s]
        op == Head(p.entries).op
        name == Head(p.entries).name
        gone == op = "unlink" /\ FileIn(p.target, name) = Absent
        done == ~ fail /\ ~ gone
        rest == Tail(p.entries)
        deleted == IF done /\ op = "unlink" THEN p.deleted \cup {name}
                   ELSE p.deleted
        updated == IF done /\ op = "writeFile" THEN p.updated \cup {name}
                   ELSE p.updated
    IN
    /\ Awaits(s, "sync-directory-v1", {"unlink", "writeFile"})
    /\ fail => ~ gone
    /\ IF fail THEN CanFail /\ faults' = faults + 1
       ELSE UNCHANGED faults
    /\ IF done
       THEN FsSet(p.target, name,
                  IF op = "unlink" THEN Absent ELSE p.project[name])
       ELSE UNCHANGED diskVars
    /\ IF rest = << >>
       THEN /\ response' = SyncDirectoryResponseV1(deleted, updated)
            /\ passes' = [passes EXCEPT ![s] = IdlePass]
       ELSE /\ passes' = [passes EXCEPT ![s] =
                    [p EXCEPT !.pc = Head(rest).op, !.entries = rest,
                              !.target = currentDirectory,
                              !.deleted = deleted, !.updated = updated]]
            /\ UNCHANGED response
    /\ UNCHANGED << remote, serverVars, localChanges, uiVars, stamp,
                    localEdits, remoteEdits, started, clicks, applied,
                    recorded, persisted, stopped, pageVars, budget, reading >>

NextFirstGeneration ==
    \/ \E directory \in {Dir, OtherDir}, fail \in BOOLEAN :
            PostSetDirectoryV1(directory, fail)
    \/ \E path \in Paths, c \in Contents : FsWrite(path, c)
    \/ \E path \in Paths : FsUnlink(path)
    \/ \E f \in Names, c \in Contents \cup {Absent} : RemoteEdit(f, c)
    \/ PostSyncDirectoryV1(remote)
    \/ \E s \in Slots, order \in Orders, fail \in BOOLEAN :
            PostSyncDirectoryV1ReadDir(s, order, fail)
    \/ \E s \in Slots, fail \in BOOLEAN : PostSyncDirectoryV1Step(s, fail)

SpecFirstGeneration == Init /\ [][NextFirstGeneration]_vars

\* ------------------------------------ the server and a second directory
\* The second-generation server when the plugin names one directory and
\* then another.
NextServerDirectories ==
    \/ \E directory \in {Dir, OtherDir}, fail \in BOOLEAN :
            PostSetDirectoryTo(directory, fail)
    \/ \E s \in Slots : PostSetDirectoryWatch(s)
    \/ \E f \in Names, c \in Contents : FsWrite(f, c)
    \/ \E f \in Names : FsUnlink(f)
    \/ \E i \in 1..MaxHandlers, fail \in BOOLEAN : ReadFile(i, fail)
    \/ \E i \in 1..MaxHandlers : QueueChange(i)
    \/ GetLocalChanges

SpecServerDirectories == Init /\ [][NextServerDirectories]_vars

\* ------------------------------- the server while the watcher is replaced
\* The second-generation server when the plugin sends POST /set-directory
\* again and again for the same directory, as every conflict check and every
\* materialization does.
NextServerRewatch ==
    \/ \E fail \in BOOLEAN : PostSetDirectory(fail)
    \/ \E s \in Slots : PostSetDirectoryWatch(s)
    \/ \E f \in Names, c \in Contents : FsWrite(f, c)
    \/ \E f \in Names : FsUnlink(f)
    \/ \E i \in 1..MaxHandlers, fail \in BOOLEAN : ReadFile(i, fail)
    \/ \E i \in 1..MaxHandlers : QueueChange(i)
    \/ GetLocalChanges

SpecServerRewatch == Init /\ [][NextServerRewatch]_vars

\* ------------------------------------------- files that may be empty
\* The contents of a file when a file may also be saved empty.
AllContents == Contents \cup {""}

\* The requests of the second-generation server that read and write the
\* directory, when a file of the project may be empty; the handlers of the
\* watcher stay pending.
NextServerEmpty ==
    \/ \E fail \in BOOLEAN : PostSetDirectory(fail)
    \/ \E s \in Slots : PostSetDirectoryWatch(s)
    \/ \E f \in Names, c \in AllContents \cup {Absent} : RemoteEdit(f, c)
    \/ \E path \in Paths : FsUnlink(path)
    \/ GetFiles
    \/ \E s \in Slots, fail \in BOOLEAN : GetFilesReadDir(s, fail)
    \/ \E s \in Slots, fail \in BOOLEAN : GetFilesReadFile(s, fail)
    \/ PostSyncDirectory(remote)
    \/ \E s \in Slots, order \in Orders, fail \in BOOLEAN :
            PostSyncDirectoryReadDir(s, order, fail)
    \/ \E s \in Slots, fail \in BOOLEAN : PostSyncDirectoryWriteFile(s, fail)

SpecServerEmpty == Init /\ [][NextServerEmpty]_vars

\* The plugin with conflict resolution when the user may save a local file
\* empty.
NextEmptyEdits ==
    \/ \E f \in Names, c \in AllContents : FsWrite(f, c)
    \/ \E i \in 1..MaxHandlers, fail \in BOOLEAN : ReadFile(i, fail)
    \/ \E i \in 1..MaxHandlers : QueueChange(i)
    \/ \E part \in Parts, fail \in BOOLEAN : Initialize(part, fail)
    \/ \E directory \in Directories : HandleSaveDirectory(directory)
    \/ \E i \in 1..MaxSaves, fail \in BOOLEAN : SavePluginStateReturns(i, fail)
    \/ StartSyncing
    \/ Tick
    \/ CheckSteps
    \/ \E s \in Slots, fail \in {"none", "unreachable", "lost"} : Drain(s, fail)
    \/ \E s \in Slots, fail \in BOOLEAN : Apply(s, fail)
    \/ \E s \in Slots, fail \in BOOLEAN : ApplyWrite(s, fail)
    \/ \E s \in Slots, fail \in BOOLEAN : Refresh(s, fail)

SpecEmptyEdits == Init /\ [][NextEmptyEdits]_vars

\* ------------------------------------------------------------- properties
\* The file is present on both sides with different content.
Diverged(f) ==
    remote[f] # Absent /\ local[f] # Absent /\ remote[f] # local[f]

\* The step leaves the server with the directory whose files local holds
\* (while the server has no directory local holds the files of the
\* directory it is given first).
SameDirectory ==
    \/ currentDirectory' = currentDirectory
    \/ currentDirectory = NoDir

\* A resolution for the file has been recorded.
Resolved(f) == \E r \in recorded : r.fileId = f

\* C1 (no data loss on conflict): while a file is present with different
\* content on the two sides and no resolution for it has been recorded, no
\* step of the program changes its local or its remote content (the user's
\* own edits are the steps that count localEdits and remoteEdits, and a
\* step that makes the server read another directory changes no file).
C1_NoOverwriteBeforeResolution ==
    [][\A f \in Names :
          Diverged(f) /\ ~ Resolved(f) /\ SameDirectory =>
             /\ remoteEdits' = remoteEdits => remote'[f] = remote[f]
             /\ localEdits' = localEdits => local'[f] = local[f]]_vars

\* C2 (at most one active pass): at most one pass started by the interval is
\* in flight at any moment.
C2_AtMostOneActivePass ==
    Cardinality({s \in Slots : passes[s].kind = "poll"}) <= 1

\* The timestamps of the changes the watcher has queued so far.
Stamps == 1 .. (stamp - 1)

\* C3 (every queued change is delivered): every change the watcher queued
\* has been applied to the remote store, is still in the queue, or is in the
\* batch of a pass in flight.
C3_EveryChangeDelivered ==
    \A t \in Stamps :
        \/ t \in applied
        \/ \E i \in 1..Len(localChanges) : localChanges[i].timestamp = t
        \/ \E s \in Slots : \E i \in 1..Len(passes[s].batch) :
                passes[s].batch[i].timestamp = t

\* C4 (a local deletion never deletes the remote copy): no step of the
\* program removes a file from the remote store.
C4_LocalDeletionKeepsRemote ==
    [][\A f \in Names :
          remote[f] # Absent /\ remote'[f] = Absent =>
              remoteEdits' # remoteEdits]_vars

\* C5 (scenario E), for the two-way plugin: when the POST /sync-directory
\* of a pass has listed a directory that lacks b.ts, and the user never
\* changed the project and no request failed, the request goes on to write
\* b.ts with the content of the project (b.ts is in the directory
\* initially, so it lacks it only after the user deleted it).
C5_DeletedFileRestored ==
    [][\A s \in Slots :
          /\ passes[s].pc = "sync-readdir"
          /\ passes'[s] # passes[s]
          /\ FileIn(passes[s].walked, "b.ts") = Absent
          /\ remoteEdits' = 0
          /\ faults' = 0
          => /\ passes[s].project["b.ts"]
                    \in {r["b.ts"] : r \in InitialRemote}
             /\ \E i \in 1..Len(passes'[s].entries) :
                    passes'[s].entries[i] = Step("writeFile", "b.ts")]_vars

\* The step in which the conflict check of the pass gets the answer of GET
\* /get-files, its last request.
CheckAnswered(s) ==
    /\ passes[s].pc \in {"listing", "readdir", "walk"}
    /\ passes'[s].pc \notin {"listing", "readdir", "walk"}

\* The files that answer holds when nothing has failed.
Answer(p) == IF p.pc = "walk" THEN WalkDirectoryRead(p, FALSE) ELSE {}

\* The step in which syncLocalChangesToFramer gets past the first change of
\* the batch of the pass, or ends on it.
ChangeDone(s) ==
    /\ passes[s].pc \in {"apply", "write"}
    /\ passes'[s] # passes[s]
    /\ passes'[s].pc # "write"

\* C6 (resolution memory): a pass of the session that checks for conflicts
\* does not show the user again a conflict (same file, same two contents)
\* that was resolved "keep local" before the pass started.
C6_ResolvedNotResurfaced ==
    [][\A s \in Slots :
          CheckAnswered(s) =>
              \A c \in conflicts' \ conflicts : c \notin passes[s].known]_vars

\* The conflicts a check must report for a pass: the files that differ on
\* the two sides and are not among the resolutions given to the pass.
Unresolved(p) ==
    {[fileId |-> f, localContent |-> local[f], framerContent |-> remote[f]] :
        f \in {g \in Names : Diverged(g) /\
                             \A r \in p.resolved : r.fileId # g}}

\* C7 (scenario B): when the server has read the files of the directory for
\* the conflict check of a pass, nobody has edited a file on either side and
\* the server has had one directory only, and a file differs on the two
\* sides and has not been resolved, the pass ends with a conflict result:
\* it does not go on to drain or apply, nothing is written to either side,
\* the conflicts shown are exactly the differing files with their local and
\* remote content, and a pass started by the button whose files are all
\* known to the plugin shows them.
C7_ConflictReportedWithoutWrite ==
    [][\A s \in Slots :
          /\ passes[s].pc = "walk"
          /\ passes'[s].pc # "walk"
          /\ localEdits' = 0
          /\ remoteEdits' = 0
          /\ ~ other.visited
          /\ Unresolved(passes[s]) # {}
          => /\ passes'[s].pc \in {"idle", "refresh"}
             /\ remote' = remote
             /\ local' = local
             /\ conflicts' \in {conflicts, Unresolved(passes[s])}
             /\ (/\ passes[s].caller = "start"
                 /\ \A c \in Unresolved(passes[s]) : c.fileId \in passes[s].files)
                => /\ isResolvingConflicts'
                   /\ conflicts' = Unresolved(passes[s])]_vars

\* The file has a mapping with status "synced".
MappedSynced(mappings, f) ==
    \E m \in mappings : m.framerFileId = f /\ m.status = "synced"

\* C8 (scenario A): when a pass completes in a behaviour where no request
\* failed and the user edited neither side, every file of the project
\* that the directory lacked (or held with the same content) is in the
\* directory with the content of the project and has a mapping with status
\* "synced".
C8_RemoteOnlyFileMaterialized ==
    [][\A s \in Slots, f \in Names :
          /\ passes[s].pc = "refresh"
          /\ passes'[s].pc = "idle"
          /\ faults' = 0
          /\ localEdits' = 0
          /\ remoteEdits' = 0
          /\ remote[f] # Absent
          /\ ~ Diverged(f)
          => /\ local'[f] = remote'[f]
             /\ MappedSynced(fileMappings', f)]_vars

\* C9 (scenario C): the step that records a "keep local" resolution sets the
\* remote content of the file to the local content of the conflict.
C9_KeepLocalUpdatesRemote ==
    [][\A r \in recorded' \ recorded :
          r.keepLocal => remote'[r.fileId] = r.localContent]_vars

\* C10 (the kept content reaches the losing side): when the pass that
\* follows the last resolution completes, and the user has edited neither
\* side, every resolved file has the same content on the two sides.
C10_KeptContentOnLosingSide ==
    [][\A s \in Slots :
          /\ passes[s].pc = "refresh"
          /\ passes[s].caller = "resolve"
          /\ passes'[s].pc = "idle"
          /\ faults' = faults
          /\ localEdits = 0
          /\ remoteEdits = 0
          => \A r \in recorded : local'[r.fileId] = remote'[r.fileId]]_vars

\* C11 (scenario D): when a pass started by the interval after the initial
\* resolution has finished propagating (its next request is the refresh), no
\* request has failed, the project was edited and the directory never was,
\* every file that differed on the two sides has the local content in the
\* project, and the user was not prompted.
C11_LocalWinsAfterInitialResolution ==
    [][\A s \in Slots, f \in Names :
          /\ passes[s].kind = "poll"
          /\ passes[s].hasInitial
          /\ passes[s].pc \in {"listing", "readdir", "walk", "drain", "apply",
                               "write"}
          /\ passes'[s].pc = "refresh"
          /\ faults' = 0
          /\ localEdits' = 0
          /\ remoteEdits > 0
          /\ Diverged(f)
          => /\ remote'[f] = local[f]
             /\ conflicts' = conflicts
             /\ isResolvingConflicts' = isResolvingConflicts]_vars

\* C12 (idempotence): once a pass has completed and nothing was edited on
\* either side and no request failed, a further pass writes nothing: its
\* POST /sync-directory, once it has listed the directory, goes on to no
\* fs.writeFile, and it applies no change to the project.
C12_SecondPassWritesNothing ==
    [][\A s \in Slots :
          /\ lastSyncTimestamp > 0
          /\ localEdits' = 0
          /\ remoteEdits' = 0
          /\ faults' = 0
          => /\ (passes[s].pc = "sync-readdir" /\ passes'[s] # passes[s])
                    => passes'[s].pc = "refresh"
             /\ applied' = applied]_vars

\* C13: when a pass has finished propagating to the project (its next
\* request is the refresh), no request has failed and nothing was edited on
\* either side, every file of the directory, the files that were there
\* before syncing started included, exists in the project with the
\* directory's content.
C13_LocalOnlyFileCreatedRemotely ==
    [][\A s \in Slots, f \in Names :
          /\ passes[s].pc \in {"listing", "readdir", "walk", "drain", "apply",
                               "write"}
          /\ passes'[s].pc = "refresh"
          /\ faults' = 0
          /\ localEdits' = 0
          /\ remoteEdits' = 0
          /\ local[f] # Absent
          /\ remote[f] = Absent
          => remote'[f] = local[f]]_vars

\* C14 (stop): pressing Stop Syncing leaves sync mode, clears the interval
\* so that no tick can start a pass, ends the busy state, clears the recorded
\* resolutions and the pending conflicts, starts no pass, and leaves the
\* directory, the file mappings and the last-sync timestamp as they were.
C14_StopClearsSchedulerKeepsSession ==
    [][(isSyncMode /\ clicks' # clicks)
          => /\ ~ isSyncMode'
             /\ ~ pollInterval'.armed
             /\ ~ isSyncing'
             /\ resolvedConflicts' = {}
             /\ conflicts' = {}
             /\ ~ isResolvingConflicts'
             /\ passes' = passes
             /\ started' = started
             /\ localDirectory' = localDirectory
             /\ fileMappings' = fileMappings
             /\ lastSyncTimestamp' = lastSyncTimestamp]_vars

\* Start Syncing, a completed pass, then Stop Syncing: the session is kept.
C14_Witness ==
    /\ clicks = 2
    /\ started = 1
    /\ faults = 0
    /\ InFlight = {}
    /\ ~ isSyncMode
    /\ ~ pollInterval.armed
    /\ resolvedConflicts = {}
    /\ localDirectory = Dir
    /\ fileMappings # {}
    /\ lastSyncTimestamp > 0

\* C15 (automatic recovery): when a request of a pass fails and the pass
\* ends with an error, the interval stays armed, so that the next tick runs
\* another pass without the user; this holds for a pass of the interval and
\* for the pass that Start Syncing runs itself.  (A read of walkDirectory
\* that fails does not end the pass with an error: the file is left out of
\* the listing.)
C15_FailedPassStaysScheduled ==
    [][\A s \in Slots :
          /\ passes[s].pc \notin {"idle", "walk"}
          /\ passes'[s].pc = "idle"
          /\ faults' = faults + 1
          /\ \/ passes[s].caller = "start" /\ clicks = 1
             \/ passes[s].kind = "poll" /\ isSyncMode
          => isSyncMode' /\ pollInterval'.armed]_vars

\* The session state in memory.
PluginState ==
    [localDirectory |-> localDirectory, fileMappings |-> fileMappings,
     lastSyncTimestamp |-> lastSyncTimestamp]

\* C16 (persistence): after every step that changes the session state (the
\* directory, the file mappings, the last-sync timestamp) and leaves no call
\* of savePluginState waiting, the stored plugin data is the serialisation
\* of the session state in memory.
C16_SessionStatePersisted ==
    [][(PluginState' # PluginState /\ saving' = << >>)
          => persisted' = JsonRoundTrip(PluginState')]_vars

\* C17 (conflicts suspend polling): while the resolver shows pending
\* conflicts the interval starts no pass, and leaving the resolver with
\* Back does not arm the interval.
C17_NoPollWhileConflictsPending ==
    [][/\ \A s \in Slots :
             (passes[s].pc = "idle" /\ passes'[s].kind = "poll")
                => ~ isResolvingConflicts /\ conflicts = {}
       /\ (isResolvingConflicts /\ ~ isResolvingConflicts'
              /\ started' = started)
             => ~ pollInterval'.armed]_vars

\* C18 (partial propagation): when the conflict check of a pass returns
\* unresolved conflicts and no request or call has failed, every change
\* queued at that moment for a file that is not in the conflict set has been
\* applied to the project by the time the pass returns.
C18_NonConflictingChangeApplied ==
    [][\A s \in Slots :
          LET found == UnresolvedConflicts(
                          CheckForConflicts(passes[s].project,
                                            Answer(passes[s])),
                          passes[s].resolved)
          IN  /\ CheckAnswered(s)
              /\ faults' = 0
              /\ found # {}
              => \A i \in 1..Len(localChanges) :
                    localChanges[i].path \notin {c.fileId : c \in found}
                       => localChanges[i].timestamp \in applied']_vars

\* C19 (resolutions are scoped to a directory): a step that changes the
\* directory of the session leaves no recorded resolution.
C19_DirectoryChangeClearsResolutions ==
    [][localDirectory' # localDirectory => resolvedConflicts' = {}]_vars

\* C20 (mappings rebuilt wholesale): when a pass completes with the snapshot
\* of the project it has just read, the file mappings are exactly one mapping
\* per file of that snapshot: no mapping for a file that is not in it, no two
\* mappings for one file, every status synced.
C20_MappingsRebuiltFromSnapshot ==
    [][\A s \in Slots :
          /\ passes[s].pc = "refresh"
          /\ passes'[s].pc = "idle"
          /\ faults' = faults
          => /\ {m.framerFileId : m \in fileMappings'} = Present(remote)
             /\ Cardinality(fileMappings') = Cardinality(Present(remote))
             /\ \A m \in fileMappings' : m.status = "synced"]_vars

\* A file was removed from the project after it had been mapped, and a later
\* pass has completed: the mappings name the remaining file only.
C20_Witness ==
    /\ remoteEdits = 1
    /\ faults = 0
    /\ remote["a.ts"] = Absent
    /\ InFlight = {}
    /\ lastSyncTimestamp >= 2
    /\ {m.framerFileId : m \in fileMappings} = {"b.ts"}
    /\ \A m \in fileMappings : m.lastSync = NewDate(lastSyncTimestamp)

\* C21 (stop is safe mid-pass): from Stop Syncing until the next Start Syncing,
\* whatever the passes left in flight do when they complete, the plugin is
\* not in sync mode, the interval is not armed and the resolver is not shown.
C21_StoppedStaysStopped ==
    stopped => /\ ~ isSyncMode
               /\ ~ pollInterval.armed
               /\ ~ isResolvingConflicts

\* C22 (unreadable file): every add or change handler that ends has queued a
\* change for its path; when its file could not be read the change is an
\* unlink.
C22_UnreadableFileQueuedAsRemoved ==
    [][Len(reading') < Len(reading)
          => \E i \in 1..Len(reading) :
                /\ reading' = RemoveAt(reading, i)
                /\ Len(localChanges') = Len(localChanges) + 1
                /\ localChanges'[Len(localChanges')].path = reading[i].path
                /\ reading[i].content = NoContent
                      => localChanges'[Len(localChanges')].type = "unlink"]_vars

\* The step in which the server answers the POST /sync-directory of the
\* slot with its results.
SyncAnswered(s) ==
    /\ passes[s].kind = "request"
    /\ passes[s].caller = "sync-directory"
    /\ passes'[s].pc = "idle"
    /\ "skipped" \in DOMAIN response'

\* C23 (a failed local write is reported): when POST /sync-directory, the
\* only request since the directory was set, answers with its results while
\* the user has edited no file, also after a write has thrown, every file
\* of the request that is not in the directory with the request's content
\* is named in the skipped list, and the other files of the request are
\* written.
C23_FailedWriteReportedSkipped ==
    [][\A s \in Slots :
          (/\ SyncAnswered(s)
           /\ started' = 2
           /\ localEdits' = 0)
             => \A f \in Present(passes[s].project) :
                   Truthy(passes[s].project[f]) =>
                      \/ local'[f] = passes[s].project[f]
                      \/ f \in response'.skipped]_vars

\* C24 (deletions only target names absent from the snapshot): every file
\* a step of a POST /sync-directory removes from a directory (the one the
\* server is on, or the one it has left), and every name the request
\* reports as deleted when it answers, is absent from the request's file
\* list.
C24_DeletionOnlyOfAbsentNames ==
    [][\A s \in Slots :
          (passes[s].kind = "request" /\ passes'[s] # passes[s])
             => /\ \A f \in Names :
                      ((local[f] # Absent /\ local'[f] = Absent)
                       \/ (other.local[f] # Absent /\ other'.local[f] = Absent))
                         => passes[s].project[f] = Absent
                /\ (passes'[s].pc = "idle" /\ "deletedFiles" \in DOMAIN response')
                      => response'.deletedFiles
                            \cap Present(passes[s].project) = {}
                /\ (passes'[s].pc = "idle" /\ "deleted" \in DOMAIN response')
                      => response'.deleted
                            \cap Present(passes[s].project) = {}]_vars

\* A request has deleted a local file the project does not have and has
\* kept the files the project has.
C24_Witness ==
    /\ "deletedFiles" \in DOMAIN response
    /\ "a.ts" \in response.deletedFiles
    /\ remote["a.ts"] = Absent
    /\ local["a.ts"] = Absent
    /\ remote["b.ts"] # Absent
    /\ local["b.ts"] = remote["b.ts"]

\* C25 (a remote failure on one change does not abort the pass): a pass that
\* is applying a batch of two or more drained changes goes on, after its
\* step on the first of them, with the remaining changes of the batch,
\* whether that step succeeded or failed.
C25_RemoteFailureKeepsBatch ==
    [][\A s \in Slots :
          (/\ ChangeDone(s)
           /\ Len(passes[s].batch) >= 2)
             => /\ passes'[s].pc = "apply"
                /\ passes'[s].batch = Tail(passes[s].batch)]_vars

\* The positions of the queue that hold a change for the path.
QueuedFor(path) == {i \in 1..Len(localChanges) : localChanges[i].path = path}

\* The last change the queue holds for the path.
LastQueued(path) ==
    localChanges[CHOOSE i \in QueuedFor(path) :
                    \A j \in QueuedFor(path) : j <= i]

\* C26 (the queue keeps the order of the events): when the server has
\* served one request, the POST /set-directory that created the watcher,
\* every handler has ended and no read has failed, the last change queued
\* for a path is the last event of that path: an unlink exactly when the
\* file is gone, and otherwise a change with the content the file has.
C26_QueueInEventOrder ==
    (reading = << >> /\ faults = 0 /\ started = 1)
       => \A path \in Paths :
             QueuedFor(path) # {} =>
                IF FileAt(path) = Absent
                THEN LastQueued(path).type = "unlink"
                ELSE LastQueued(path).content = FileAt(path)

\* C27 (hidden paths are excluded): no change the watcher has queued is for
\* a path the ignored pattern matches, and no file of the listing GET
\* /get-files answers with has such a path.
C27_HiddenPathsExcluded ==
    /\ \A i \in 1..Len(localChanges) : ~ Ignored(localChanges[i].path)
    /\ "files" \in DOMAIN response
          => \A file \in response.files : ~ Ignored(file.name)

\* C29 (a failed local write downgrades the mapping): when a pass of the
\* two-way plugin completes and rebuilds the mappings in a behaviour where
\* the user edited neither side, a file of the project that the directory
\* does not hold with the project's content (its write failed in this pass)
\* has no mapping with status "synced", and every other file of the project
\* has one.
C29_FailedWriteNotSynced ==
    [][\A s \in Slots :
          (/\ passes[s].pc = "refresh"
           /\ passes[s].kind = "twoway"
           /\ passes'[s].pc = "idle"
           /\ faults' = faults
           /\ localEdits = 0
           /\ remoteEdits = 0)
             => \A f \in Present(remote) :
                   IF local[f] = remote[f]
                   THEN MappedSynced(fileMappings', f)
                   ELSE ~ MappedSynced(fileMappings', f)]_vars

\* C30 (every pass terminates): a pass in flight eventually ends, also when
\* one of its requests never receives a response, and the plugin eventually
\* leaves the syncing state.
C30_EveryPassTerminates ==
    /\ \A s \in Slots : (passes[s].pc # "idle") ~> (passes[s].pc = "idle")
    /\ isSyncing ~> ~ isSyncing

\* C31 (the one-way pass leaves the directory alone): in the plugin whose
\* passes are performSync, only the user's own edits change a local file: no
\* step of a pass, and no handler of the plugin, changes the directory (a
\* step that makes the server read another directory changes no file).
C31_OneWayPassKeepsLocal ==
    [][(localEdits' = localEdits /\ SameDirectory) => local' = local]_vars

\* A pass has completed with nobody editing, and the directory still lacks
\* a file of the project and still differs from it where it did.
C31_Witness ==
    /\ lastSyncTimestamp > 0
    /\ InFlight = {}
    /\ localEdits = 0
    /\ remoteEdits = 0
    /\ faults = 0
    /\ remote["a.ts"] # Absent
    /\ local["a.ts"] = Absent

\* C32 (the materializer's writes are not echoed): while the user has edited
\* no local file, the watcher has nothing to report, so no step of a pass
\* of the two-way plugin changes the project: an edit made in Framer between
\* two passes is not replaced by what the earlier pass wrote locally.
C32_MaterializedWritesNotEchoed ==
    [][(localEdits = 0 /\ remoteEdits' = remoteEdits) => remote' = remote]_vars

\* C33 (the directory holds the request afterwards): when POST
\* /sync-directory, the only request since the directory was set, answers
\* with its results, nothing has failed and the user has edited no local
\* file, every file of the request is in the directory with the content of
\* the request, the empty string included.
C33_RequestMaterializedExactly ==
    [][\A s \in Slots :
          (/\ SyncAnswered(s)
           /\ started' = 2
           /\ faults' = 0
           /\ localEdits' = 0)
             => \A f \in Present(passes[s].project) :
                   local'[f] = passes[s].project[f]]_vars

\* C34 (every drained add or change reaches the project): the step of a
\* pass that applies an add or a change of its batch leaves the project's
\* file of that name with the content of the change, the empty string
\* included.
C34_DrainedChangeApplied ==
    [][\A s \in Slots :
          (/\ passes[s].pc \in {"apply", "write"}
           /\ Head(passes[s].batch).timestamp \in applied' \ applied
           /\ Head(passes[s].batch).type # "unlink")
             => remote'[Head(passes[s].batch).path]
                   = Head(passes[s].batch).content]_vars

\* C36 (polling and resolving exclude each other): in every reachable state
\* the plugin is not in sync mode while the conflict resolver is shown.
C36_NotPollingWhileResolving ==
    ~ (isSyncMode /\ isResolvingConflicts)

\* C37 (no success without the local side): the step of a pass in which GET
\* /local-changes fails ends the pass with an error: the pass does not go
\* on to the refresh that marks the mappings "synced".
C37_LocalReadFailureIsError ==
    [][\A s \in Slots :
          (/\ passes[s].pc = "drain"
           /\ passes'[s] # passes[s]
           /\ faults' = faults + 1)
             => /\ passes'[s].pc = "idle"
                /\ fileMappings' = fileMappings]_vars

\* C38 (no change crosses directories): the POST /set-directory that
\* switches the server from one directory to another leaves no change of the
\* previous directory in the queue, so that the next drain returns only
\* changes observed in the new directory.
C38_QueueClearedOnDirectorySwitch ==
    [][(currentDirectory # NoDir /\ currentDirectory' # currentDirectory)
          => localChanges' = << >>]_vars

\* C39 (no local change is missed): while the server has a directory, every
\* add, change or removal of one of its code files starts a handler of the
\* watcher or queues a change; a change that is recorded nowhere can be
\* returned by no drain.
C39_EveryLocalChangeObserved ==
    [][(/\ currentDirectory # NoDir
        /\ localEdits' = localEdits + 1
        /\ hidden' = hidden)
          => \/ Len(reading') = Len(reading) + 1
             \/ Len(localChanges') = Len(localChanges) + 1]_vars

\* The paths the request of the slot names: the files of a POST
\* /sync-directory, the fileName of a POST /write-file.
Named(p) ==
    IF p.caller = "sync-directory" THEN Present(p.project)
    ELSE IF p.caller = "write-file" THEN {Head(p.entries).name}
    ELSE {}

\* C40 (local-only files survive): a request to the second-generation
\* server leaves every file of the directory whose name is not in the
\* request as it was, the dot file included: no step of POST
\* /sync-directory deletes or rewrites it, on arrival or at any of its
\* awaits, and the request never reports a deletion.
C40_LocalOnlyFileUntouched ==
    [][/\ started' = started + 1 => local' = local /\ hidden' = hidden
       /\ \A s \in Slots :
             (passes[s].kind = "request" /\ passes'[s] # passes[s])
                => /\ \A f \in Names \ Named(passes[s]) :
                         local'[f] = local[f]
                   /\ HiddenPath \notin Named(passes[s]) => hidden' = hidden
                   /\ "deleted" \in DOMAIN response'
                         => response'.deleted = {}]_vars

\* POST /sync-directory has written a file of the request while the
\* directory holds a file the request does not name.
C40_Witness ==
    /\ "updated" \in DOMAIN response
    /\ response.updated = {"b.ts"}
    /\ remote["a.ts"] = Absent
    /\ local["a.ts"] # Absent
    /\ localEdits = 0

=============================================================================
